---- MODULE Spec2Model ----
(***************************************************************************)
(* Model of the device session and driver engine of devicemanager/dc.py:   *)
(*   - DeviceFactory.__enter__ : SSH and Telnet negotiation                *)
(*   - DeviceFactory.__get_device : vendor classification                  *)
(*   - DeviceFactory.__exit__ : session teardown                           *)
(*   - BaseDevice.send_command : the paged command executor                *)
(* The remote device and the pexpect child are the environment: what the   *)
(* next expect() call matches is the variable "show".                      *)
(***************************************************************************)
EXTENDS Integers, Sequences, FiniteSets, TLC

(***************************************************************************)
(* Bounds of the model.                                                    *)
(***************************************************************************)
MaxCreds == 2       \* credential pairs supplied by the caller
MaxSpawn == 5       \* pexpect children spawned during one __enter__
MaxSends == 3       \* passwords typed during one Telnet negotiation
MaxAnomalies == 1   \* unexpected device reactions (silence, EOF, closed, radius)
MaxClose == 2       \* calls of __exit__ by the caller
MaxProbeWaits == 3  \* expect() calls of one classification probe loop
MaxSigs == 2        \* vendor signatures present in one probe output
MaxPages == 2       \* pages of one probe answer
MaxMore == 3        \* 'more' banners in the answer to one command
MaxLimit == 2       \* largest pages_limit passed to send_command
MaxVid == 3         \* largest number written in a _range_to_numbers argument
MaxParts == 2       \* pieces of a _range_to_numbers argument
MaxAgain == 1       \* repeated device answers ('more', 'Fail!') in one driver call

VARIABLES
    protocol,       \* self.protocol
    nCreds,         \* len(self.login) = len(self.password)
    goodPair,       \* the pair the device accepts, 0 when it accepts none
    devKex,         \* how the device treats the key exchange offer
    devCipher,      \* how the device treats the cipher offer
    pc,             \* position in __enter__ / __get_device / caller
    idx,            \* index of the for loop over the credential pairs
    connected,      \* local variable connected
    algorithm_str,  \* local variable algorithm_str (<<>> is '')
    cipher_str,     \* local variable cipher_str ("" is '')
    streams,        \* every pexpect child spawned so far
    session,        \* self.session, an index into streams
    withSession,    \* the child bound by the with statement of the SSH loop
    show,           \* what the child's output lets the next expect() match
    loginSent,      \* pairs whose login was typed, in order
    pwSent,         \* pairs whose password was typed, in order
    recorded,       \* pair stored in self.login/self.password, 0: still the list
    anomalies,      \* unexpected device reactions so far
    sent,           \* everything else written to a child: <<stream, text, live>>
    result,         \* what __enter__ returned
    exc,            \* the exception __enter__ raised, "" when none
    closeCalls,     \* calls of __exit__ so far
    exitSends,      \* bytes written by __exit__ calls
    devVersion,     \* signatures in the device's answer to 'show version'
    devPages,       \* pages the answer to 'show version' is split into
    eltexModel,     \* what 'show system' says about the model
    dvText,         \* what 'display version' says
    version,        \* local variable version of __get_device
    probeWaits,     \* expect() calls made by the current probe loop
    probePage,      \* page of the answer the device is showing
    selected,       \* the branch of the signature chain that was taken
    expect_command, \* send_command argument expect_command
    before_catch,   \* send_command argument before_catch is given
    space_prompt,   \* the driver has a 'more' pattern
    pages_limit,    \* send_command argument pages_limit, None when not given
    feed,           \* what the device writes in answer to the command
    pos,            \* items of feed consumed by expect() so far
    cpc,            \* position in send_command
    output,         \* local variable output
    before,         \* self.session.before
    keys,           \* continuation keystrokes sent
    timedOut,       \* an expect() of this call timed out
    cexc            \* exception send_command raised, "" when none

VARIABLES
    driver,         \* class of the driver object
    oper,           \* the driver method the caller invoked, "" before the call
    port,           \* argument port
    status,         \* argument status of set_port
    desc,           \* argument desc of set_description
    save_config,    \* argument save_config of EltexMES.reload_port and set_port
    privileged,     \* ZTE.__privileged / Dlink._admin_status
    identity,       \* self.model, self.serialno, self.mac
    stack,          \* call stack of the driver: frames, innermost last
    match,          \* index the last expect() returned
    said,           \* phrase found in the output of the last send_command
    wire,           \* what was done on self.session, in order, by the constructor
                    \* while it runs and since its return afterwards
    ret,            \* what the outermost method returned or raised
    again,          \* repeated device answers ('more', 'Fail!') so far
    ports_string,   \* argument of _range_to_numbers
    numbers,        \* what _range_to_numbers returned
    fpc             \* position of the _range_to_numbers call

sessVars == <<protocol, nCreds, goodPair, devKex, devCipher, pc, idx, connected,
              algorithm_str, cipher_str, streams, session, withSession, show,
              loginSent, pwSent, recorded, anomalies, sent, result, exc,
              closeCalls, exitSends>>
clsVars == <<devVersion, devPages, eltexModel, dvText, version, probeWaits,
             probePage, selected>>
cmdVars == <<expect_command, before_catch, space_prompt, pages_limit, feed, pos,
             cpc, output, before, keys, timedOut, cexc>>
drvVars == <<driver, oper, port, status, desc, save_config, privileged, identity, stack,
             match, said, wire, ret, again>>
fnVars == <<ports_string, numbers, fpc>>
vars == <<sessVars, clsVars, cmdVars, drvVars, fnVars>>

Last(s) == s[Len(s)]

\* What __enter__ hands to the caller: a driver, a text, or None.
Returned(kind, what) == [kind |-> kind, what |-> what]
Pending == Returned("pending", "")

(***************************************************************************)
(* The device side of SSH.                                                 *)
(***************************************************************************)
DevModes == {"ok", "needs", "always", "nooffer"}
Anomalous == {"silence", "eof", "closed"}

\* 'Their offer: ...' line printed by the ssh client; absent for "nooffer".
KexOffer == IF devKex = "nooffer" THEN <<>> ELSE <<"dh-group1", "dh-group14">>
CipherOffer == IF devCipher = "nooffer" THEN <<>> ELSE <<"aes128-cbc", "3des-cbc">>

KexRejects(k) == devKex = "always" \/ (devKex \in {"needs", "nooffer"} /\ k = <<>>)
CipherRejects(c) == devCipher = "always" \/ (devCipher \in {"needs", "nooffer"} /\ c = "")

\* First output of an ssh child started with overrides k, c; "nohostkey" is
\* the client's 'no matching host key type found. Their offer: ...'.
SpawnShows(k, c) ==
    LET rej == {x \in {"nokex"} : KexRejects(k)} \cup {x \in {"nocipher"} : CipherRejects(c)}
    IN  IF rej # {} THEN rej ELSE {"hostauth", "password", "shell", "nohostkey"}

\* The device shows one of `normal`, or, within the budget, something unexpected.
DeviceShows(normal) ==
    \/ /\ show' \in normal
       /\ anomalies' = anomalies
    \/ /\ anomalies < MaxAnomalies
       /\ show' \in Anomalous
       /\ anomalies' = anomalies + 1

(***************************************************************************)
(* pexpect children.                                                       *)
(***************************************************************************)
Child(user, k, c) == [user |-> user, kex |-> k, cipher |-> c, closed |-> FALSE]

\* spawn.close(): closing a closed child changes nothing.
CloseStream(ss, i) == IF i \in DOMAIN ss THEN [ss EXCEPT ![i].closed = TRUE] ELSE ss

Live(i) == i \in DOMAIN streams /\ ~streams[i].closed

\* The SSH credential list: zip(self.login + ['admin'], self.password + ['admin']).
SshPairs == 1..(nCreds + 1)
\* The Telnet credential list: zip(self.login, self.password).
TelnetPairs == 1..nCreds

\* Command line of the child spawned at the head of the for loop.
SshSpawnOverrides(k, c) == [kex |-> k, cipher |-> c]
\* Command line of the respawn after a key exchange rejection.
KexRespawnOverrides(offer, c) == [kex |-> offer, cipher |-> c]
\* A respawn after a cipher rejection that forgets the key exchange override.
CipherRespawnOverridesReset(k, offer) == [kex |-> <<>>, cipher |-> Last(offer)]
\* Command line of the respawn after a cipher rejection.
CipherRespawnOverrides(k, offer) == [kex |-> k, cipher |-> Last(offer)]

cfgVars == <<protocol, nCreds, goodPair, devKex, devCipher>>
callerVars == <<result, closeCalls, exitSends>>

(***************************************************************************)
(* DeviceFactory.__enter__, SSH branch.                                    *)
(***************************************************************************)
\* connected = False, then the branch of self.protocol.
Enter ==
    /\ pc = "enter"
    /\ connected' = FALSE
    /\ IF protocol = "ssh"
       THEN /\ pc' = "ssh_for"
            /\ UNCHANGED <<streams, session, show, anomalies>>
       ELSE /\ pc' = "tel_loop"
            /\ streams' = Append(streams, Child(0, <<>>, ""))
            /\ session' = Len(streams) + 1
            /\ DeviceShows({"login", "password", "shell", "anykey", "unable"})
    /\ UNCHANGED <<cfgVars, cmdVars, drvVars, fnVars, idx, algorithm_str, cipher_str, withSession, loginSent,
                   pwSent, recorded, sent, exc, callerVars, clsVars>>

\* for login, password in zip(...): with pexpect.spawn(...) as self.session
SshSpawn ==
    /\ pc = "ssh_for"
    /\ idx \in SshPairs
    /\ Len(streams) < MaxSpawn
    /\ LET o == SshSpawnOverrides(algorithm_str, cipher_str)
       IN  /\ streams' = Append(streams, Child(idx, o.kex, o.cipher))
           /\ DeviceShows(SpawnShows(o.kex, o.cipher))
    /\ session' = Len(streams) + 1
    /\ withSession' = Len(streams) + 1
    /\ pc' = "ssh_loop"
    /\ UNCHANGED <<cfgVars, cmdVars, drvVars, fnVars, idx, connected, algorithm_str, cipher_str, loginSent,
                   pwSent, recorded, sent, exc, callerVars, clsVars>>

\* The for loop ends without a break: control falls through to __get_device.
SshExhausted ==
    /\ pc = "ssh_for"
    /\ idx \notin SshPairs
    /\ pc' = "get_device"
    /\ UNCHANGED <<cfgVars, cmdVars, drvVars, fnVars, idx, connected, algorithm_str, cipher_str, streams,
                   session, withSession, show, loginSent, pwSent, recorded,
                   anomalies, sent, exc, callerVars, clsVars>>

\* login_stat == 0: 'no matching key exchange method found'
SshKex ==
    /\ pc = "ssh_loop"
    /\ show = "nokex"
    /\ IF KexOffer # <<>>
       THEN /\ Len(streams) < MaxSpawn
            /\ algorithm_str' = KexOffer
            /\ LET o == KexRespawnOverrides(KexOffer, cipher_str)
               IN  /\ streams' = Append(streams, Child(idx, o.kex, o.cipher))
                   /\ DeviceShows(SpawnShows(o.kex, o.cipher))
            /\ session' = Len(streams) + 1
       ELSE /\ show' = "eof"
            /\ UNCHANGED <<algorithm_str, streams, session, anomalies>>
    /\ UNCHANGED <<cfgVars, cmdVars, drvVars, fnVars, pc, idx, connected, cipher_str, withSession, loginSent,
                   pwSent, recorded, sent, exc, callerVars, clsVars>>

\* login_stat == 1: 'no matching cipher found'
SshCipher ==
    /\ pc = "ssh_loop"
    /\ show = "nocipher"
    /\ IF CipherOffer # <<>>
       THEN /\ Len(streams) < MaxSpawn
            /\ LET o == CipherRespawnOverrides(algorithm_str, CipherOffer)
               IN  /\ cipher_str' = Last(CipherOffer)
                   /\ streams' = Append(streams, Child(idx, o.kex, o.cipher))
                   /\ DeviceShows(SpawnShows(o.kex, o.cipher))
            /\ session' = Len(streams) + 1
       ELSE /\ show' = "eof"
            /\ UNCHANGED <<cipher_str, streams, session, anomalies>>
    /\ UNCHANGED <<cfgVars, cmdVars, drvVars, fnVars, pc, idx, connected, algorithm_str, withSession, loginSent,
                   pwSent, recorded, sent, exc, callerVars, clsVars>>

\* login_stat == 2: 'Are you sure you want to continue connecting'
SshHostAuth ==
    /\ pc = "ssh_loop"
    /\ show = "hostauth"
    /\ sent' = Append(sent, <<session, "yes", Live(session)>>)
    /\ DeviceShows({"password", "shell"})
    /\ UNCHANGED <<cfgVars, cmdVars, drvVars, fnVars, pc, idx, connected, algorithm_str, cipher_str, streams,
                   session, withSession, loginSent, pwSent, recorded, exc,
                   callerVars, clsVars>>

\* Leaving the with block closes the child the with statement bound.
WithExit(ss) == CloseStream(ss, withSession)

\* A password branch that tries the rejected pair again.
SshPasswordSamePair ==
    /\ pc = "ssh_loop"
    /\ show = "password"
    /\ pwSent' = Append(pwSent, idx)
    /\ streams' = WithExit(streams)
    /\ show' = "none"
    /\ \/ /\ idx = goodPair
          /\ connected' = TRUE
          /\ recorded' = idx
          /\ pc' = "get_device"
          /\ UNCHANGED <<idx, anomalies, exc>>
       \/ /\ idx # goodPair
          /\ pc' = "ssh_for"
          /\ UNCHANGED <<idx, connected, recorded, anomalies, exc>>
       \/ /\ anomalies < MaxAnomalies
          /\ anomalies' = anomalies + 1
          /\ exc' \in {"TIMEOUT", "EOF"}
          /\ pc' = "raised"
          /\ UNCHANGED <<idx, connected, recorded>>
    /\ UNCHANGED <<cfgVars, cmdVars, drvVars, fnVars, algorithm_str, cipher_str, session, withSession,
                   loginSent, sent, callerVars, clsVars>>

\* login_stat == 3: the password is typed and the answer awaited.
SshPassword ==
    /\ pc = "ssh_loop"
    /\ show = "password"
    /\ pwSent' = Append(pwSent, idx)
    /\ streams' = WithExit(streams)
    /\ show' = "none"
    /\ \/ /\ idx = goodPair             \* shell prompt: connected
          /\ connected' = TRUE
          /\ recorded' = idx
          /\ pc' = "get_device"
          /\ UNCHANGED <<idx, anomalies, exc>>
       \/ /\ idx # goodPair             \* password asked again: next pair
          /\ idx' = idx + 1
          /\ pc' = "ssh_for"
          /\ UNCHANGED <<connected, recorded, anomalies, exc>>
       \/ /\ anomalies < MaxAnomalies   \* neither pattern arrives
          /\ anomalies' = anomalies + 1
          /\ exc' \in {"TIMEOUT", "EOF"}
          /\ pc' = "raised"
          /\ UNCHANGED <<idx, connected, recorded>>
    /\ UNCHANGED <<cfgVars, cmdVars, drvVars, fnVars, algorithm_str, cipher_str, session, withSession,
                   loginSent, sent, callerVars, clsVars>>

\* login_stat == 4: a shell prompt without a password.
SshPrompt ==
    /\ pc = "ssh_loop"
    /\ show = "shell"
    /\ connected' = TRUE
    /\ recorded' = idx
    /\ streams' = WithExit(streams)
    /\ show' = "none"
    /\ pc' = "get_device"
    /\ UNCHANGED <<cfgVars, cmdVars, drvVars, fnVars, idx, algorithm_str, cipher_str, session, withSession,
                   loginSent, pwSent, anomalies, sent, exc, callerVars, clsVars>>

\* A 'Connection closed' branch that goes on with the next pair.
SshClosedNextPair ==
    /\ pc = "ssh_loop"
    /\ show = "closed"
    /\ show' = "none"
    /\ idx' = idx + 1
    /\ pc' = "ssh_for"
    /\ UNCHANGED <<cfgVars, cmdVars, drvVars, fnVars, connected, algorithm_str, cipher_str, streams,
                   session, withSession, loginSent, pwSent, recorded, anomalies,
                   sent, exc, callerVars, clsVars>>

\* login_stat == 5: 'Connection closed' matches, no branch handles it and the
\* loop waits again on a child that has ended.
SshClosed ==
    /\ pc = "ssh_loop"
    /\ show = "closed"
    /\ show' = "eof"
    /\ UNCHANGED <<cfgVars, cmdVars, drvVars, fnVars, pc, idx, connected, algorithm_str, cipher_str, streams,
                   session, withSession, loginSent, pwSent, recorded, anomalies,
                   sent, exc, callerVars, clsVars>>

\* expect() raises pexpect.TIMEOUT or pexpect.EOF; nothing catches it.
SshExpectFails ==
    /\ pc = "ssh_loop"
    /\ show \in {"silence", "eof"}
    /\ exc' = IF show = "silence" THEN "TIMEOUT" ELSE "EOF"
    /\ streams' = WithExit(streams)
    /\ pc' = "raised"
    /\ UNCHANGED <<cfgVars, cmdVars, drvVars, fnVars, idx, connected, algorithm_str, cipher_str, session,
                   withSession, show, loginSent, pwSent, recorded, anomalies, sent,
                   callerVars, clsVars>>

\* 'no matching host key type found': none of the six patterns matches it,
\* the client has ended and expect() raises pexpect.EOF.
SshHostKey ==
    /\ pc = "ssh_loop"
    /\ show = "nohostkey"
    /\ exc' = "EOF"
    /\ streams' = WithExit(streams)
    /\ pc' = "raised"
    /\ UNCHANGED <<cfgVars, cmdVars, drvVars, fnVars, idx, connected, algorithm_str, cipher_str, session,
                   withSession, show, loginSent, pwSent, recorded, anomalies, sent,
                   callerVars, clsVars>>

(***************************************************************************)
(* DeviceFactory.__enter__, Telnet branch.                                 *)
(***************************************************************************)
TelnetOdd == {"silence", "eof", "closed", "radius"}

\* What a Telnet device shows next: one of `normal`, or, within the budget,
\* something unexpected.
TelnetShows(normal) ==
    \/ /\ show' \in normal
       /\ anomalies' = anomalies
    \/ /\ anomalies < MaxAnomalies
       /\ show' \in TelnetOdd
       /\ anomalies' = anomalies + 1

\* The device's verdict on a password typed for pair p.
Accepts(p) == p = goodPair /\ (loginSent = <<>> \/ Last(loginSent) = p)

\* login_stat < 3: a login prompt; the login is typed, continue.
TelLogin ==
    /\ pc = "tel_loop"
    /\ show = "login"
    /\ idx \in TelnetPairs
    /\ Len(loginSent) < MaxSends
    /\ loginSent' = Append(loginSent, idx)
    /\ TelnetShows({"password"})
    /\ UNCHANGED <<cfgVars, cmdVars, drvVars, fnVars, pc, idx, connected, algorithm_str, cipher_str, streams,
                   session, withSession, pwSent, recorded, sent, exc, callerVars,
                   clsVars>>

\* login_stat == 3: a password prompt; the password is typed and the pair
\* stored in self.login / self.password, continue.
TelPassword ==
    /\ pc = "tel_loop"
    /\ show = "password"
    /\ idx \in TelnetPairs
    /\ Len(pwSent) < MaxSends
    /\ pwSent' = Append(pwSent, idx)
    /\ recorded' = idx
    /\ TelnetShows(IF Accepts(idx) THEN {"shell"} ELSE {"login"})
    /\ UNCHANGED <<cfgVars, cmdVars, drvVars, fnVars, pc, idx, connected, algorithm_str, cipher_str, streams,
                   session, withSession, loginSent, sent, exc, callerVars, clsVars>>

\* A transport branch that waits for the next prompt instead of returning.
TelTransportContinues ==
    /\ pc = "tel_loop"
    /\ show \in {"closed", "unable"}
    /\ show' = "login"
    /\ UNCHANGED <<cfgVars, cmdVars, drvVars, fnVars, pc, idx, connected, algorithm_str, cipher_str, streams,
                   session, withSession, loginSent, pwSent, recorded,
                   anomalies, sent, exc, callerVars, clsVars>>

\* 4 <= login_stat <= 5: 'Connection closed' / 'Unable to connect'.
TelTransport ==
    /\ pc = "tel_loop"
    /\ show \in {"closed", "unable"}
    /\ result' = Returned("text", "TelnetUnavailable")
    /\ pc' = "returned"
    /\ UNCHANGED <<cfgVars, cmdVars, drvVars, fnVars, idx, connected, algorithm_str, cipher_str, streams,
                   session, withSession, show, loginSent, pwSent, recorded,
                   anomalies, sent, exc, closeCalls, exitSends, clsVars>>

\* login_stat == 6: the shell prompt; connected, both loops are left.
TelShell ==
    /\ pc = "tel_loop"
    /\ show = "shell"
    /\ connected' = TRUE
    /\ show' = "none"
    /\ pc' = "get_device"
    /\ UNCHANGED <<cfgVars, cmdVars, drvVars, fnVars, idx, algorithm_str, cipher_str, streams, session,
                   withSession, loginSent, pwSent, recorded, anomalies, sent, exc,
                   callerVars, clsVars>>

\* A radius branch that gives the pair up and goes on with the next one.
TelRadiusNextPair ==
    /\ pc = "tel_loop"
    /\ show = "radius"
    /\ idx' = idx + 1
    /\ TelnetShows({"login"})
    /\ UNCHANGED <<cfgVars, cmdVars, drvVars, fnVars, pc, connected, algorithm_str, cipher_str, streams,
                   session, withSession, loginSent, pwSent, recorded, sent, exc,
                   callerVars, clsVars>>

\* login_stat == 8: the radius banner; continue with the same pair.
TelRadius ==
    /\ pc = "tel_loop"
    /\ show = "radius"
    /\ TelnetShows({"login"})
    /\ UNCHANGED <<cfgVars, cmdVars, drvVars, fnVars, pc, idx, connected, algorithm_str, cipher_str, streams,
                   session, withSession, loginSent, pwSent, recorded, sent, exc,
                   callerVars, clsVars>>

\* login_stat == 7: 'Press any key to continue'; space, login and password
\* are typed and the prompt awaited; then the while loop is left by the
\* final break with connected still False, so the for loop advances.
TelAnyKey ==
    /\ pc = "tel_loop"
    /\ show = "anykey"
    /\ idx \in TelnetPairs
    /\ sent' = Append(sent, <<session, " ", Live(session)>>)
    /\ loginSent' = Append(loginSent, idx)
    /\ pwSent' = Append(pwSent, idx)
    /\ IF idx = goodPair
       THEN \* the prompt is matched and consumed; the device then waits
            /\ show' = "silence"
            /\ IF idx + 1 \in TelnetPairs
               THEN /\ idx' = idx + 1
                    /\ UNCHANGED <<pc, result>>
               ELSE \* for ... else: the list is exhausted
                    /\ result' = Returned("text", "WrongLoginOrPassword")
                    /\ pc' = "returned"
                    /\ UNCHANGED idx
       ELSE \* no prompt arrives: pexpect.TIMEOUT, caught
            /\ show' = "login"
            /\ result' = Returned("text", "LoginTimeout")
            /\ pc' = "returned"
            /\ UNCHANGED idx
    /\ UNCHANGED <<cfgVars, cmdVars, drvVars, fnVars, connected, algorithm_str, cipher_str, streams, session,
                   withSession, recorded, anomalies, exc, closeCalls, exitSends,
                   clsVars>>

\* expect() raises pexpect.TIMEOUT: caught, the 'Login Error' string is returned.
TelTimeout ==
    /\ pc = "tel_loop"
    /\ show = "silence"
    /\ result' = Returned("text", "LoginTimeout")
    /\ pc' = "returned"
    /\ UNCHANGED <<cfgVars, cmdVars, drvVars, fnVars, idx, connected, algorithm_str, cipher_str, streams,
                   session, withSession, show, loginSent, pwSent, recorded,
                   anomalies, sent, exc, closeCalls, exitSends, clsVars>>

\* expect() raises pexpect.EOF: only TIMEOUT is caught.
TelEOF ==
    /\ pc = "tel_loop"
    /\ show = "eof"
    /\ exc' = "EOF"
    /\ pc' = "raised"
    /\ UNCHANGED <<cfgVars, cmdVars, drvVars, fnVars, idx, connected, algorithm_str, cipher_str, streams,
                   session, withSession, show, loginSent, pwSent, recorded,
                   anomalies, sent, callerVars, clsVars>>

(***************************************************************************)
(* DeviceFactory.__get_device: the probes and the signature chain.         *)
(* A probe output is the set of signature texts it contains.               *)
(***************************************************************************)
Signatures == {"Image stamp:", " ZTE Corporation:", "Unrecognized command", "cisco",
               "Cisco", "Next possible completions:", "Hardware version",
               "Active-image:", "Boot version:", "ExtremeXOS", "QTECH", "ISKRATEL",
               "IskraTEL", "% Unknown command",
               "show: invalid command, valid commands are", "unknown keyword show"}

\* str.lower() on the signature texts.
Lower(t) ==
    CASE t = "Image stamp:" -> "image stamp:"
      [] t = " ZTE Corporation:" -> " zte corporation:"
      [] t = "Unrecognized command" -> "unrecognized command"
      [] t = "Cisco" -> "cisco"
      [] t = "Next possible completions:" -> "next possible completions:"
      [] t = "Hardware version" -> "hardware version"
      [] t = "Active-image:" -> "active-image:"
      [] t = "Boot version:" -> "boot version:"
      [] t = "ExtremeXOS" -> "extremexos"
      [] t = "QTECH" -> "qtech"
      [] t = "ISKRATEL" -> "iskratel"
      [] t = "IskraTEL" -> "iskratel"
      [] t = "% Unknown command" -> "% unknown command"
      [] OTHER -> t

VersionLower(v) == {Lower(t) : t \in v}

\* The if / elif chain of __get_device from the D-Link test on.
BranchAfterCisco(v) ==
    IF "Next possible completions:" \in v THEN "Dlink"
    ELSE IF "Hardware version" \in v THEN "EdgeCore"
    ELSE IF "Active-image:" \in v \/ "Boot version:" \in v THEN "Eltex"
    ELSE IF "ExtremeXOS" \in v THEN "Extreme"
    ELSE IF "QTECH" \in v THEN "Qtech"
    ELSE IF "ISKRATEL" \in v THEN "IskratelControl"
    ELSE IF "IskraTEL" \in v THEN "IskratelMBan"
    ELSE IF "% Unknown command" \in v THEN "DisplayVersion"
    ELSE IF "show: invalid command, valid commands are" \in v THEN "SysInfoShow"
    ELSE IF "unknown keyword show" \in v THEN "Juniper"
    ELSE "NoMatch"

\* A chain that tests 'cisco' before 'Unrecognized command'.
BranchCiscoFirst(v) ==
    IF "Image stamp:" \in v THEN "ProCurve"
    ELSE IF " ZTE Corporation:" \in v THEN "ZTE"
    ELSE IF "cisco" \in VersionLower(v) THEN "Cisco"
    ELSE IF "Unrecognized command" \in v THEN "Huawei"
    ELSE BranchAfterCisco(v)

\* The if / elif chain of __get_device: the branch taken for probe output v.
Branch(v) ==
    IF "Image stamp:" \in v THEN "ProCurve"
    ELSE IF " ZTE Corporation:" \in v THEN "ZTE"
    ELSE IF "Unrecognized command" \in v THEN "Huawei"
    ELSE IF "cisco" \in VersionLower(v) THEN "Cisco"
    ELSE BranchAfterCisco(v)

\* Branches that do nothing but call a driver constructor.
DirectCtors == {"ProCurve", "ZTE", "Huawei", "Cisco", "Dlink", "EdgeCore", "Extreme",
                "Qtech", "IskratelControl", "IskratelMBan", "Juniper"}

\* Subclasses of BaseDevice that leave abstract methods undefined: calling
\* them raises TypeError.
AbstractClasses == {"ProCurve", "Juniper"}

\* What 'show system' can say about the model; "nomatch": no model line.
EltexModels == {"MES2324B", "ESR-200", "TAU-8", "nomatch"}
HasMES(m) == m = "MES2324B"
HasESR(m) == m = "ESR-200"

\* What the Eltex branch returns for model m (m # "nomatch").
EltexResult(m) ==
    IF HasMES(m) THEN Returned("driver", "EltexMES")
    ELSE IF HasESR(m) THEN Returned("driver", "EltexESR")
    ELSE Returned("None", "")

\* What the 'display version' / 'sys info show' branch returns for output v.
SecondLevelResult(branch, v) ==
    IF branch = "DisplayVersion" /\ "VERSION : MA5600" \in v
    THEN Returned("driver", "HuaweiMA5600T")
    ELSE Returned("None", "")

\* What the final else of the chain returns.
NoMatchResult == Returned("text", "NotRecognized")

\* Text of page i of the answer to 'show version'.
PageText(i) == IF i = devPages THEN devVersion ELSE {}
\* Mark that ends page i of an answer of n pages; a silent device shows nothing.
PageMark(i, n) == IF n = 0 THEN "silence" ELSE IF i < n THEN "more" ELSE "prompt"

\* Text of page i of the answer to the second probe.
Page2Text(i) ==
    IF i # dvText.at THEN {}
    ELSE IF selected = "DisplayVersion" THEN {"VERSION : MA5600"}
    ELSE {"ZyNOS version"}

\* self.session.sendline('show version')
GetDevice ==
    /\ pc = "get_device"
    /\ sent' = Append(sent, <<session, "show version", Live(session)>>)
    /\ IF Live(session)
       THEN /\ pc' = "probe1"
            /\ show' = PageMark(1, devPages)
            /\ UNCHANGED exc
       ELSE \* writing to a closed child
            /\ pc' = "raised"
            /\ exc' = "OSError"
            /\ UNCHANGED show
    /\ version' = {}
    /\ probeWaits' = 0
    /\ probePage' = 1
    /\ UNCHANGED <<cfgVars, cmdVars, drvVars, fnVars, idx, connected, algorithm_str, cipher_str, streams,
                   session, withSession, loginSent, pwSent, recorded, anomalies,
                   callerVars, devVersion, devPages, eltexModel, dvText, selected>>

\* First probe loop, m == 1: a 'more' banner is answered with a space.
Probe1More ==
    /\ pc = "probe1"
    /\ show = "more"
    /\ version' = version \cup PageText(probePage)
    /\ sent' = Append(sent, <<session, " ", Live(session)>>)
    /\ probePage' = probePage + 1
    /\ probeWaits' = probeWaits + 1
    /\ show' = PageMark(probePage + 1, devPages)
    /\ UNCHANGED <<cfgVars, cmdVars, drvVars, fnVars, pc, idx, connected, algorithm_str, cipher_str, streams,
                   session, withSession, loginSent, pwSent, recorded, anomalies,
                   exc, callerVars, devVersion, devPages, eltexModel, dvText,
                   selected>>

\* First probe loop, m == 4: a timeout is answered with Ctrl-C and the loop
\* waits again.
Probe1Timeout ==
    /\ pc = "probe1"
    /\ show = "silence"
    /\ probeWaits < MaxProbeWaits
    /\ sent' = Append(sent, <<session, "^C", Live(session)>>)
    /\ probeWaits' = probeWaits + 1
    /\ UNCHANGED <<cfgVars, cmdVars, drvVars, fnVars, pc, idx, connected, algorithm_str, cipher_str, streams,
                   session, withSession, show, loginSent, pwSent, recorded,
                   anomalies, exc, callerVars, devVersion, devPages, eltexModel,
                   dvText, version, probePage, selected>>

\* First probe loop, m in {0, 2, 3}: a prompt ends the loop.
Probe1Prompt ==
    /\ pc = "probe1"
    /\ show = "prompt"
    /\ version' = version \cup PageText(probePage)
    /\ probeWaits' = probeWaits + 1
    /\ show' = "none"
    /\ pc' = "classify"
    /\ UNCHANGED <<cfgVars, cmdVars, drvVars, fnVars, idx, connected, algorithm_str, cipher_str, streams,
                   session, withSession, loginSent, pwSent, recorded, anomalies,
                   sent, exc, callerVars, devVersion, devPages, eltexModel, dvText,
                   probePage, selected>>

negVars == <<idx, connected, algorithm_str, cipher_str, streams, session,
             withSession, loginSent, pwSent, recorded, anomalies>>
devClsVars == <<devVersion, devPages, eltexModel, dvText>>

\* A branch that only calls a driver constructor.
ClassifyDirect ==
    /\ pc = "classify"
    /\ Branch(version) \in DirectCtors
    /\ selected' = Branch(version)
    /\ IF Branch(version) \in AbstractClasses
       THEN /\ exc' = "TypeError"
            /\ pc' = "raised"
            /\ UNCHANGED result
       ELSE /\ result' = Returned("driver", Branch(version))
            /\ pc' = "returned"
            /\ UNCHANGED exc
    /\ UNCHANGED <<cfgVars, cmdVars, drvVars, fnVars, negVars, show, sent, closeCalls, exitSends, devClsVars,
                   version, probeWaits, probePage>>

\* The Eltex branch: _Eltex.__init__ asks 'show system' and the model decides.
ClassifyEltex ==
    /\ pc = "classify"
    /\ Branch(version) = "Eltex"
    /\ selected' = "Eltex"
    /\ sent' = Append(sent, <<session, "show system", Live(session)>>)
    /\ IF eltexModel = "nomatch"
       THEN \* find_or_empty gives '' and ''[0] raises
            /\ exc' = "IndexError"
            /\ pc' = "raised"
            /\ UNCHANGED result
       ELSE /\ result' = EltexResult(eltexModel)
            /\ pc' = "returned"
            /\ UNCHANGED exc
    /\ UNCHANGED <<cfgVars, cmdVars, drvVars, fnVars, negVars, show, closeCalls, exitSends, devClsVars,
                   version, probeWaits, probePage>>

\* '% Unknown command' / 'show: invalid command': a second probe is sent.
ClassifySecondProbe ==
    /\ pc = "classify"
    /\ Branch(version) \in {"DisplayVersion", "SysInfoShow"}
    /\ selected' = Branch(version)
    /\ sent' = Append(sent, <<session,
                 IF Branch(version) = "DisplayVersion" THEN "display version"
                 ELSE "sys info show", Live(session)>>)
    /\ probeWaits' = 0
    /\ probePage' = 1
    /\ show' = IF dvText.brace /\ Branch(version) = "DisplayVersion" THEN "brace"
               ELSE PageMark(1, dvText.pages)
    /\ pc' = "probe2"
    /\ UNCHANGED <<cfgVars, cmdVars, drvVars, fnVars, negVars, exc, callerVars, devClsVars, version>>

\* The final else of the chain.
ClassifyNoMatch ==
    /\ pc = "classify"
    /\ Branch(version) = "NoMatch"
    /\ selected' = "NoMatch"
    /\ result' = NoMatchResult
    /\ pc' = "returned"
    /\ UNCHANGED <<cfgVars, cmdVars, drvVars, fnVars, negVars, show, sent, exc, closeCalls, exitSends,
                   devClsVars, version, probeWaits, probePage>>

\* Second probe loop, m == 5: '{' is answered by waiting for '}:' and a line
\* break, continue.
Probe2Brace ==
    /\ pc = "probe2"
    /\ show = "brace"
    /\ sent' = Append(sent, <<session, "\n", Live(session)>>)
    /\ probeWaits' = probeWaits + 1
    /\ show' = PageMark(1, dvText.pages)
    /\ UNCHANGED <<cfgVars, cmdVars, drvVars, fnVars, negVars, pc, exc, callerVars, devClsVars, version,
                   probePage, selected>>

\* Second probe loop, m == 1: the banner is answered with a space; the else of
\* "if m == 4" then breaks the loop.
Probe2More ==
    /\ pc = "probe2"
    /\ show = "more"
    /\ version' = version \cup Page2Text(probePage)
    /\ sent' = Append(sent, <<session, " ", Live(session)>>)
    /\ probeWaits' = probeWaits + 1
    /\ probePage' = probePage + 1
    /\ show' = PageMark(probePage + 1, dvText.pages)
    /\ result' = SecondLevelResult(selected, version')
    /\ pc' = "returned"
    /\ UNCHANGED <<cfgVars, cmdVars, drvVars, fnVars, negVars, exc, closeCalls, exitSends, devClsVars,
                   selected>>

\* Second probe loop, m == 4: Ctrl-C and the loop waits again.
Probe2Timeout ==
    /\ pc = "probe2"
    /\ show = "silence"
    /\ probeWaits < MaxProbeWaits
    /\ sent' = Append(sent, <<session, "^C", Live(session)>>)
    /\ probeWaits' = probeWaits + 1
    /\ UNCHANGED <<cfgVars, cmdVars, drvVars, fnVars, negVars, pc, show, exc, callerVars, devClsVars, version,
                   probePage, selected>>

\* Second probe loop, m in {0, 2, 3}: a prompt breaks the loop.
Probe2Prompt ==
    /\ pc = "probe2"
    /\ show = "prompt"
    /\ version' = version \cup Page2Text(probePage)
    /\ probeWaits' = probeWaits + 1
    /\ show' = "none"
    /\ result' = SecondLevelResult(selected, version')
    /\ pc' = "returned"
    /\ UNCHANGED <<cfgVars, cmdVars, drvVars, fnVars, negVars, sent, exc, closeCalls, exitSends, devClsVars,
                   probePage, selected>>

(***************************************************************************)
(* DeviceFactory.__exit__: self.session.close().  The caller's with        *)
(* statement calls it once __enter__ has returned (not when it raised); a   *)
(* caller may call it again.                                               *)
(***************************************************************************)
\* An __exit__ that types 'exit' before closing: a write to a closed child raises.
ExitEffectLogout(ss, i) ==
    [streams |-> CloseStream(ss, i),
     written |-> IF i \in DOMAIN ss /\ ~ss[i].closed THEN 1 ELSE 0,
     raised |-> IF i \in DOMAIN ss /\ ~ss[i].closed THEN "" ELSE "OSError"]
\* Effect of __exit__ on the children: bytes written, exception raised.
ExitEffect(ss, i) == [streams |-> CloseStream(ss, i), written |-> 0, raised |-> ""]

Exit ==
    /\ pc \in {"returned", "exited"}
    /\ closeCalls < MaxClose
    /\ LET e == ExitEffect(streams, session)
       IN  /\ streams' = e.streams
           /\ exitSends' = exitSends + e.written
           /\ exc' = IF e.raised # "" THEN e.raised ELSE exc
    /\ closeCalls' = closeCalls + 1
    /\ pc' = "exited"
    /\ UNCHANGED <<cfgVars, cmdVars, drvVars, fnVars, idx, connected, algorithm_str, cipher_str, session,
                   withSession, show, loginSent, pwSent, recorded, anomalies, sent,
                   result, clsVars>>

(***************************************************************************)
(* BaseDevice.send_command.  The device's answer is a sequence of items,   *)
(* each a text followed by a mark an expect() pattern can match: the       *)
(* command echo, the before_catch anchor, a 'more' banner or the prompt;   *)
(* after a "stall" item nothing more arrives.                              *)
(***************************************************************************)
None == -1

Item(text, mark) == [text |-> text, mark |-> mark]
PageTok(i) == <<"page", i>>
NL == <<"\n", 0>>
\* The characters of a mark, when no pattern consumes it and it stays in the text.
MarkTok(mark) == <<mark, 0>>

\* The answer of a device that shows n 'more' banners: n + 1 pages.
Pages(n, ending) ==
    [i \in 1..(n + 1) |-> Item(PageTok(i), IF i <= n THEN "more" ELSE ending)]

Answer(hasEcho, hasAnchor, n, ending) ==
    (IF hasEcho THEN <<Item(<<"typed", 0>>, "echo")>> ELSE <<>>)
    \o (IF hasAnchor THEN <<Item(<<"banner", 0>>, "anchor")>> ELSE <<>>)
    \o Pages(n, ending)

\* Index of the first item after position p whose mark is one of `marks`, 0 if none.
FirstMatch(f, p, marks) ==
    LET hits == {i \in (p + 1)..Len(f) : f[i].mark \in marks}
    IN  IF hits = {} THEN 0 ELSE CHOOSE i \in hits : \A j \in hits : i <= j

RECURSIVE TextBetween(_, _, _)
\* The text of items a..b, marks included except the mark of item b.
TextBetween(f, a, b) ==
    IF a > b THEN <<>>
    ELSE IF a = b THEN <<f[a].text>>
    ELSE <<f[a].text, MarkTok(f[a].mark)>> \o TextBetween(f, a + 1, b)

RECURSIVE TextAll(_, _)
\* All the text from item a on: what a timed-out expect() leaves in before.
TextAll(f, a) ==
    IF a > Len(f) THEN <<>>
    ELSE <<f[a].text>> \o (IF f[a].mark = "stall" THEN <<>> ELSE <<MarkTok(f[a].mark)>>)
         \o TextAll(f, a + 1)

\* session.expect(marks): the index matched (0: timeout), before and the
\* new read position.
Expect(f, p, marks) ==
    LET m == FirstMatch(f, p, marks)
    IN  IF m = 0 THEN [hit |-> 0, before |-> TextAll(f, p + 1), pos |-> p]
        ELSE [hit |-> m, before |-> TextBetween(f, p + 1, m), pos |-> m]

\* An accumulator that keeps only the last page.
AccumulateOverwrite(out, bef) == bef
\* output += self.session.before
Accumulate(out, bef) == out \o bef

\* A page loop that does not count the pages it asked for.
PagesLeftUncounted(limit) == limit
\* if pages_limit: pages_limit -= 1
PagesLeft(limit) == IF limit # None /\ limit # 0 THEN limit - 1 ELSE limit

\* A call that starts the prompt wait right after the echo.
AfterEchoSkipsAnchor == IF space_prompt THEN "loop" ELSE "single"
\* The phase that follows the echo wait.
AfterEcho == IF before_catch THEN "anchor" ELSE IF space_prompt THEN "loop" ELSE "single"

\* self.session.sendline(command)
CmdCall ==
    /\ cpc = "call"
    /\ output' = <<>>
    /\ cpc' = IF expect_command THEN "echo" ELSE AfterEcho
    /\ UNCHANGED <<sessVars, clsVars, drvVars, fnVars, expect_command, before_catch, space_prompt,
                   pages_limit, feed, pos, before, keys, timedOut, cexc>>

\* self.session.expect(command[-num_of_expect:])
CmdEcho ==
    /\ cpc = "echo"
    /\ LET e == Expect(feed, pos, {"echo"})
       IN  /\ before' = e.before
           /\ pos' = e.pos
           /\ IF e.hit = 0
              THEN /\ cexc' = "TIMEOUT"
                   /\ timedOut' = TRUE
                   /\ cpc' = "raised"
              ELSE /\ cpc' = AfterEcho
                   /\ UNCHANGED <<cexc, timedOut>>
    /\ UNCHANGED <<sessVars, clsVars, drvVars, fnVars, expect_command, before_catch, space_prompt,
                   pages_limit, feed, output, keys>>

\* self.session.expect(before_catch)
CmdAnchor ==
    /\ cpc = "anchor"
    /\ LET e == Expect(feed, pos, {"anchor"})
       IN  /\ before' = e.before
           /\ pos' = e.pos
           /\ IF e.hit = 0
              THEN /\ cexc' = "TIMEOUT"
                   /\ timedOut' = TRUE
                   /\ cpc' = "raised"
              ELSE /\ cpc' = IF space_prompt THEN "loop" ELSE "single"
                   /\ UNCHANGED <<cexc, timedOut>>
    /\ UNCHANGED <<sessVars, clsVars, drvVars, fnVars, expect_command, before_catch, space_prompt,
                   pages_limit, feed, output, keys>>

\* while pages_limit is None or pages_limit > 0: the condition fails.
CmdLoopEnd ==
    /\ cpc = "loop"
    /\ ~(pages_limit = None \/ pages_limit > 0)
    /\ cpc' = "done"
    /\ UNCHANGED <<sessVars, clsVars, drvVars, fnVars, expect_command, before_catch, space_prompt,
                   pages_limit, feed, pos, output, before, keys, timedOut, cexc>>

\* A page loop that throws away what it read when the wait times out.
CmdLoopDropsPartial ==
    /\ cpc = "loop"
    /\ pages_limit = None \/ pages_limit > 0
    /\ LET e == Expect(feed, pos, {"prompt", "more"})
       IN  /\ before' = e.before
           /\ pos' = e.pos
           /\ IF e.hit # 0 /\ feed[e.hit].mark = "prompt"
              THEN /\ output' = Accumulate(output, e.before)
                   /\ cpc' = "done"
                   /\ UNCHANGED <<keys, pages_limit, timedOut>>
              ELSE IF e.hit # 0
              THEN /\ output' = Accumulate(output, e.before) \o <<NL>>
                   /\ keys' = keys + 1
                   /\ pages_limit' = PagesLeft(pages_limit)
                   /\ UNCHANGED <<cpc, timedOut>>
              ELSE /\ output' = <<>>
                   /\ timedOut' = TRUE
                   /\ cpc' = "done"
                   /\ UNCHANGED <<keys, pages_limit>>
    /\ UNCHANGED <<sessVars, clsVars, drvVars, fnVars, expect_command, before_catch, space_prompt,
                   feed, cexc>>

\* One iteration of the page loop.
CmdLoop ==
    /\ cpc = "loop"
    /\ pages_limit = None \/ pages_limit > 0
    /\ LET e == Expect(feed, pos, {"prompt", "more"})
       IN  /\ before' = e.before
           /\ pos' = e.pos
           /\ IF e.hit # 0 /\ feed[e.hit].mark = "prompt"
              THEN \* match == 0
                   /\ output' = Accumulate(output, e.before)
                   /\ cpc' = "done"
                   /\ UNCHANGED <<keys, pages_limit, timedOut>>
              ELSE IF e.hit # 0
              THEN \* match == 1
                   /\ output' = Accumulate(output, e.before) \o <<NL>>
                   /\ keys' = keys + 1
                   /\ pages_limit' = PagesLeft(pages_limit)
                   /\ UNCHANGED <<cpc, timedOut>>
              ELSE \* match == 2: pexpect.TIMEOUT
                   /\ output' = Accumulate(output, e.before)
                   /\ timedOut' = TRUE
                   /\ cpc' = "done"
                   /\ UNCHANGED <<keys, pages_limit>>
    /\ UNCHANGED <<sessVars, clsVars, drvVars, fnVars, expect_command, before_catch, space_prompt,
                   feed, cexc>>

\* A single wait whose timeout is not caught.
CmdSingleRaises ==
    /\ cpc = "single"
    /\ LET e == Expect(feed, pos, {"prompt"})
       IN  /\ before' = e.before
           /\ pos' = e.pos
           /\ timedOut' = (e.hit = 0)
           /\ IF e.hit = 0
              THEN /\ cexc' = "TIMEOUT"
                   /\ cpc' = "raised"
                   /\ UNCHANGED output
              ELSE /\ output' = e.before
                   /\ cpc' = "done"
                   /\ UNCHANGED cexc
    /\ UNCHANGED <<sessVars, clsVars, drvVars, fnVars, expect_command, before_catch, space_prompt,
                   pages_limit, feed, keys>>

\* No 'more' pattern: one wait for the prompt, a timeout is passed over.
CmdSingle ==
    /\ cpc = "single"
    /\ LET e == Expect(feed, pos, {"prompt"})
       IN  /\ before' = e.before
           /\ pos' = e.pos
           /\ output' = e.before
           /\ timedOut' = (e.hit = 0)
    /\ cpc' = "done"
    /\ UNCHANGED <<sessVars, clsVars, drvVars, fnVars, expect_command, before_catch, space_prompt,
                   pages_limit, feed, keys, cexc>>


(***************************************************************************)
(* Specifications.                                                         *)
(***************************************************************************)
\* No send_command call is under way.
CmdIdle ==
    /\ expect_command = TRUE
    /\ before_catch = FALSE
    /\ space_prompt = FALSE
    /\ pages_limit = None
    /\ feed = <<>>
    /\ pos = 0
    /\ cpc = "idle"
    /\ output = <<>>
    /\ before = <<>>
    /\ keys = 0
    /\ timedOut = FALSE
    /\ cexc = ""

\* The port of a driver on which no method was called.
NoPort == [prefix |-> "", digits |-> 0]
\* The argument before any call.
NoString == [form |-> "", parts |-> <<>>]

\* BaseDevice.__init__ called without a model: model, mac and serialno are ''.
NoIdentity == [model |-> "", serialno |-> "", mac |-> ""]

\* No driver method is under way.
DrvIdle ==
    /\ driver = ""
    /\ oper = ""
    /\ port = NoPort
    /\ status = ""
    /\ desc = ""
    /\ save_config = TRUE
    /\ privileged = FALSE
    /\ identity = NoIdentity
    /\ stack = <<>>
    /\ match = 0
    /\ said = ""
    /\ wire = <<>>
    /\ ret = Pending
    /\ again = 0

\* No _range_to_numbers call is under way.
FnIdle ==
    /\ ports_string = NoString
    /\ numbers = <<>>
    /\ fpc = "idle"

\* Probe outputs used when a whole session is opened.
SessionVersions == {{"cisco"}, {}}

OnePage == [pages |-> 1, at |-> 0, brace |-> FALSE]

\* A DeviceFactory right after __init__, about to be entered.
Init ==
    /\ protocol \in {"ssh", "telnet"}
    /\ nCreds \in 1..MaxCreds
    /\ goodPair \in 0..(nCreds + (IF protocol = "ssh" THEN 1 ELSE 0))
    /\ devKex \in (IF protocol = "ssh" THEN DevModes ELSE {"ok"})
    /\ devCipher \in (IF protocol = "ssh" THEN DevModes ELSE {"ok"})
    /\ pc = "enter"
    /\ idx = 1
    /\ connected = FALSE
    /\ algorithm_str = <<>>
    /\ cipher_str = ""
    /\ streams = <<>>
    /\ session = 0
    /\ withSession = 0
    /\ show = "none"
    /\ loginSent = <<>>
    /\ pwSent = <<>>
    /\ recorded = 0
    /\ anomalies = 0
    /\ sent = <<>>
    /\ result = Pending
    /\ exc = ""
    /\ closeCalls = 0
    /\ exitSends = 0
    /\ devVersion \in SessionVersions
    /\ devPages = 1
    /\ eltexModel = "nomatch"
    /\ dvText = OnePage
    /\ version = {}
    /\ probeWaits = 0
    /\ probePage = 1
    /\ selected = ""
    /\ CmdIdle
    /\ DrvIdle
    /\ FnIdle

Negotiate ==
    \/ Enter
    \/ SshSpawn \/ SshExhausted \/ SshKex \/ SshCipher \/ SshHostAuth
    \/ SshPassword \/ SshPrompt \/ SshClosed \/ SshExpectFails \/ SshHostKey
    \/ TelLogin \/ TelPassword \/ TelTransport \/ TelShell \/ TelRadius
    \/ TelAnyKey \/ TelTimeout \/ TelEOF

Next ==
    \/ Negotiate
    \/ GetDevice \/ Probe1Prompt \/ ClassifyDirect \/ ClassifyNoMatch
    \/ Exit

Spec == Init /\ [][Next]_vars

\* An authenticated Telnet session on which classification starts.
InitClassify ==
    /\ protocol = "telnet"
    /\ nCreds = 1
    /\ goodPair = 1
    /\ devKex = "ok"
    /\ devCipher = "ok"
    /\ pc = "get_device"
    /\ idx = 1
    /\ connected = TRUE
    /\ algorithm_str = <<>>
    /\ cipher_str = ""
    /\ streams = <<Child(0, <<>>, "")>>
    /\ session = 1
    /\ withSession = 0
    /\ show = "none"
    /\ loginSent = <<1>>
    /\ pwSent = <<1>>
    /\ recorded = 1
    /\ anomalies = 0
    /\ sent = <<>>
    /\ result = Pending
    /\ exc = ""
    /\ closeCalls = 0
    /\ exitSends = 0
    /\ devVersion \in {v \in SUBSET Signatures : Cardinality(v) <= MaxSigs}
    /\ devPages \in 0..MaxPages
    /\ eltexModel \in (IF Branch(devVersion) = "Eltex" THEN EltexModels ELSE {"nomatch"})
    /\ dvText \in (IF Branch(devVersion) \in {"DisplayVersion", "SysInfoShow"}
                   THEN {d \in [pages : 0..MaxPages, at : 0..MaxPages, brace : BOOLEAN] :
                           d.at <= d.pages}
                   ELSE {OnePage})
    /\ version = {}
    /\ probeWaits = 0
    /\ probePage = 1
    /\ selected = ""
    /\ CmdIdle
    /\ DrvIdle
    /\ FnIdle

NextClassify ==
    \/ GetDevice \/ Probe1More \/ Probe1Timeout \/ Probe1Prompt
    \/ ClassifyDirect \/ ClassifyEltex \/ ClassifySecondProbe \/ ClassifyNoMatch
    \/ Probe2Brace \/ Probe2More \/ Probe2Timeout \/ Probe2Prompt
    \/ Exit

SpecClassify == InitClassify /\ [][NextClassify]_vars

\* A driver on an authenticated session calls send_command once.
InitCmd ==
    /\ protocol = "telnet"
    /\ nCreds = 1
    /\ goodPair = 1
    /\ devKex = "ok"
    /\ devCipher = "ok"
    /\ pc = "returned"
    /\ idx = 1
    /\ connected = TRUE
    /\ algorithm_str = <<>>
    /\ cipher_str = ""
    /\ streams = <<Child(0, <<>>, "")>>
    /\ session = 1
    /\ withSession = 0
    /\ show = "none"
    /\ loginSent = <<1>>
    /\ pwSent = <<1>>
    /\ recorded = 1
    /\ anomalies = 0
    /\ sent = <<>>
    /\ result = Returned("driver", "Cisco")
    /\ exc = ""
    /\ closeCalls = 0
    /\ exitSends = 0
    /\ devVersion = {"cisco"}
    /\ devPages = 1
    /\ eltexModel = "nomatch"
    /\ dvText = OnePage
    /\ version = {"cisco"}
    /\ probeWaits = 1
    /\ probePage = 1
    /\ selected = "Cisco"
    /\ expect_command \in BOOLEAN
    /\ before_catch \in BOOLEAN
    /\ space_prompt \in BOOLEAN
    /\ pages_limit \in {None} \cup (0..MaxLimit)
    /\ \E hasEcho \in BOOLEAN, hasAnchor \in BOOLEAN, n \in 0..MaxMore,
          ending \in {"prompt", "stall"} :
          feed = Answer(hasEcho, hasAnchor, n, ending)
    /\ pos = 0
    /\ cpc = "call"
    /\ output = <<>>
    /\ before = <<>>
    /\ keys = 0
    /\ timedOut = FALSE
    /\ cexc = ""
    /\ DrvIdle
    /\ FnIdle

NextCmd == CmdCall \/ CmdEcho \/ CmdAnchor \/ CmdLoop \/ CmdLoopEnd \/ CmdSingle

SpecCmd == InitCmd /\ [][NextCmd]_vars

(***************************************************************************)
(* The session a driver works on: the state __enter__ leaves behind when   *)
(* it returned a driver of class cls.                                      *)
(***************************************************************************)
\* A probe output that makes __get_device construct class cls.
VersionOf(cls) ==
    CASE cls = "ZTE" -> {" ZTE Corporation:"}
      [] cls = "Huawei" -> {"Unrecognized command"}
      [] cls = "Cisco" -> {"cisco"}
      [] cls = "Dlink" -> {"Next possible completions:"}
      [] cls = "EltexMES" -> {"Active-image:"}
      [] cls = "EltexESR" -> {"Active-image:"}
      [] cls = "HuaweiMA5600T" -> {"% Unknown command"}

\* The probe outputs with which the model constructs class cls: a Cisco
\* answer may carry the 'Model number' line.
ProbeOutputs(cls) ==
    IF cls = "Cisco" THEN {VersionOf(cls), VersionOf(cls) \cup {"Model number: WS-X"}}
    ELSE {VersionOf(cls)}

\* BaseDevice.find_or_empty on a probe output.
FindOrEmpty(pattern, v) ==
    IF pattern = "Model number\\s*:\\s*(\\S+)" /\ "Model number: WS-X" \in v THEN "WS-X"
    ELSE ""

\* A constructor call that passes no model.
CtorModelUnset(branch, v) == ""
\* The model argument of the constructor call of a branch of __get_device.
CtorModel(branch, v) ==
    IF branch = "ZTE" THEN FindOrEmpty("Module 0:\\s*(\\S+\\s\\S+);\\s*fasteth", v)
    ELSE IF branch = "Cisco" THEN FindOrEmpty("Model number\\s*:\\s*(\\S+)", v)
    ELSE ""

DriverSession(cls) ==
    /\ protocol = "telnet"
    /\ nCreds = 1
    /\ goodPair = 1
    /\ devKex = "ok"
    /\ devCipher = "ok"
    /\ pc = "returned"
    /\ idx = 1
    /\ connected = TRUE
    /\ algorithm_str = <<>>
    /\ cipher_str = ""
    /\ streams = <<Child(0, <<>>, "")>>
    /\ session = 1
    /\ withSession = 0
    /\ show = "none"
    /\ loginSent = <<1>>
    /\ pwSent = <<1>>
    /\ recorded = 1
    /\ anomalies = 0
    /\ sent = <<>>
    /\ result = Returned("driver", cls)
    /\ exc = ""
    /\ closeCalls = 0
    /\ exitSends = 0
    /\ devVersion \in ProbeOutputs(cls)
    /\ devPages = 1
    /\ eltexModel = (IF cls = "EltexMES" THEN "MES2324B"
                     ELSE IF cls = "EltexESR" THEN "ESR-200" ELSE "nomatch")
    /\ dvText = (IF cls = "HuaweiMA5600T" THEN [pages |-> 1, at |-> 1, brace |-> FALSE]
                 ELSE OnePage)
    /\ version = devVersion
    /\ probeWaits = 1
    /\ probePage = 1
    /\ selected = Branch(version)

(***************************************************************************)
(* _range_to_numbers.  The argument is a list of pieces, each a number     *)
(* 'a' (hi = 0) or a range from lo to hi, written in one of three forms:   *)
(* "to" ('1 to 7 12 to 44'), "comma" ('1-3, 5') or "space" ('1-3 5').      *)
(***************************************************************************)
Pieces == [lo : 1..MaxVid, hi : 0..MaxVid]
PieceLists(n) == [1..n -> Pieces]

\* The strings of n pieces the function is called with.
PortsStrings(n) ==
    {[form |-> "to", parts |-> ps] :
        ps \in {q \in PieceLists(n) : \A i \in 1..n : q[i].hi # 0}}
    \cup {[form |-> "comma", parts |-> ps] : ps \in {q \in PieceLists(n) : n >= 2}}
    \cup {[form |-> "space", parts |-> ps] : ps \in PieceLists(n)}

\* list(range(a, b + 1))
PyRange(a, b) == [i \in 1..(IF b >= a THEN b - a + 1 ELSE 0) |-> a + i - 1]

RECURSIVE Extend(_, _)
\* ports_split += v, res_ports.append(...): the lists of ls joined from i on.
Extend(ls, i) == IF i > Len(ls) THEN <<>> ELSE ls[i] \o Extend(ls, i + 1)

\* sorted(l)
Sorted(l) == SortSeq(l, LAMBDA x, y : x < y)

\* The numbers of one piece: int(p), or the range when '-' is in p.
PieceNumbers(p) == IF p.hi # 0 THEN PyRange(p.lo, p.hi) ELSE <<p.lo>>

RangeToNumbers(str) ==
    IF str.form = "to"
    THEN \* re.findall(r'(\d+)\s*to\s*(\d+)'): one range per pair
         Sorted(Extend([i \in 1..Len(str.parts) |->
                          PyRange(str.parts[i].lo, str.parts[i].hi)], 1))
    ELSE \* split on ',' or on white space, then piece by piece
         Sorted(Extend([i \in 1..Len(str.parts) |-> PieceNumbers(str.parts[i])], 1))

\* A driver calls _range_to_numbers(ports_string).
FnCall ==
    /\ fpc = "call"
    /\ numbers' = RangeToNumbers(ports_string)
    /\ fpc' = "done"
    /\ UNCHANGED <<sessVars, clsVars, cmdVars, drvVars, ports_string>>

InitFn ==
    /\ DriverSession("ZTE")
    /\ CmdIdle
    /\ DrvIdle
    /\ \E n \in 1..MaxParts : ports_string \in PortsStrings(n)
    /\ numbers = <<>>
    /\ fpc = "call"

NextFn == FnCall

SpecFn == InitFn /\ [][NextFn]_vars

(***************************************************************************)
(* The driver classes.  Each method is a list of instructions, one per     *)
(* statement that touches the session or decides the control flow; the     *)
(* numbers in goto fields are positions in the same list.  The device      *)
(* decides what every expect() matches.                                    *)
(***************************************************************************)
Ins(op, text, goto, quiet, loops, ec, bc) ==
    [op |-> op, text |-> text, goto |-> goto, quiet |-> quiet, loops |-> loops,
     ec |-> ec, bc |-> bc]

\* self.session.sendline(text)
Sendline(text) == Ins("sendline", text, <<>>, 0, {}, FALSE, FALSE)
\* self.session.send(text)
Send(text) == Ins("send", text, <<>>, 0, {}, FALSE, FALSE)
\* self.session.expect([...]): goto[i + 1] is where index i leads; a device
\* that stays silent raises pexpect.TIMEOUT.
Await(text, goto) == Ins("expect", text, goto, 0, {}, FALSE, FALSE)
\* The same with pexpect.TIMEOUT caught or listed: silence leads to goto[quiet];
\* the answers in loops lead back and can repeat.
AwaitQuiet(text, goto, quiet, loops) == Ins("expect", text, goto, quiet, loops, FALSE, FALSE)
\* time.sleep(1)
Sleep == Ins("sleep", "", <<>>, 0, {}, FALSE, FALSE)
\* An expression that can raise, evaluated for the next statement.
Eval(expr) == Ins("eval", expr, <<>>, 0, {}, FALSE, FALSE)
\* _interface_normal_view(port) inside the f-string of the next command
View == Eval("_interface_normal_view(port)")
\* self.send_command(text, expect_command=ec, before_catch given: bc)
Command(text, ec, bc) == Ins("command", text, <<>>, 0, {}, ec, bc)
\* self.<routine>()
Call(routine) == Ins("call", routine, <<>>, 0, {}, FALSE, FALSE)
\* if cond: goto[1] else: goto[2]
If(cond, then, else) == Ins("if", cond, <<then, else>>, 0, {}, FALSE, FALSE)
Jump(to) == If("True", to, to)
\* self.__privileged = ... / status = ...
Set(value) == Ins("set", value, <<>>, 0, {}, FALSE, FALSE)
Return(value) == Ins("return", value, <<>>, 0, {}, FALSE, FALSE)
\* self.<field> = self.find_or_empty(pattern, <output of the last command>)
Assign(field) == Ins("assign", field, <<>>, 0, {}, FALSE, FALSE)

\* BaseDevice.send_command with pages_limit left at None.
send_command ==
    << Sendline("command"),                                       \* 1
       If("expect_command", 3, 4),                                \* 2
       Await("command[-num_of_expect:]", <<4>>),                  \* 3
       If("before_catch", 5, 6),                                  \* 4
       Await("before_catch", <<6>>),                              \* 5
       If("space_prompt", 7, 10),                                 \* 6
       AwaitQuiet("prompt, space_prompt, TIMEOUT", <<11, 8, 11>>, 3, {2}),  \* 7
       Send(" "),                                                 \* 8
       Jump(7),                                                   \* 9
       AwaitQuiet("prompt", <<11, 11>>, 2, {}),                   \* 10
       Return("output") >>                                        \* 11

ZTE___init__ ==
    << Command("show version", TRUE, FALSE),                      \* 1
       Assign("mac"),                                             \* 2
       Sendline("enable"),                                        \* 3
       Await("prompt, password, Simultaneous", <<9, 5, 7>>),      \* 4
       Sendline("privilege_mode_password"),                       \* 5
       Await("refused, (cfg)#", <<7, 9>>),                        \* 6
       Set("unprivileged"),                                       \* 7
       Jump(10),                                                  \* 8
       Set("privileged"),                                         \* 9
       Return("None") >>                                          \* 10

\* A get_mac that keeps the last address it found in self.mac.
ZTE_get_mac_storing ==
    << If("port is None", 2, 3),                                  \* 1
       Return("[]"),                                              \* 2
       Command("show fdb port {port} detail", TRUE, FALSE),       \* 3
       Assign("mac"),                                             \* 4
       Return("mac_list") >>                                      \* 5

ZTE_get_mac ==
    << If("port is None", 2, 3),                                  \* 1
       Return("[]"),                                              \* 2
       Command("show fdb port {port} detail", TRUE, FALSE),       \* 3
       Return("mac_list") >>                                      \* 4

ZTE_save_config ==
    << Sendline("saveconfig"),                                    \* 1
       Await("please wait a minute, Command not found", <<5, 3>>),  \* 2
       Sendline("write"),                                         \* 3
       Await("please wait a minute", <<5>>),                      \* 4
       Await("prompt, Done", <<7, 6>>),                           \* 5
       Return("SAVED_OK"),                                        \* 6
       Return("SAVED_ERR") >>                                     \* 7

ZTE_reload_port ==
    << If("privileged", 3, 2),                                    \* 1
       Return("refused"),                                         \* 2
       If("port is None", 4, 5),                                  \* 3
       Return("invalid port"),                                    \* 4
       Sendline("set port {port} disable"),                       \* 5
       Sleep,                                                     \* 6
       Sendline("set port {port} enable"),                        \* 7
       Call("save_config"),                                       \* 8
       Return("reset port") >>                                    \* 9

ZTE_set_port ==
    << If("privileged", 3, 2),                                    \* 1
       Return("refused"),                                         \* 2
       If("port is None", 4, 5),                                  \* 3
       Return("invalid port"),                                    \* 4
       If("status == 'down'", 6, 8),                              \* 5
       Sendline("set port {port} disable"),                       \* 6
       Jump(12),                                                  \* 7
       If("status == 'up'", 9, 11),                               \* 8
       Sendline("set port {port} enable"),                        \* 9
       Jump(12),                                                  \* 10
       Return("invalid status"),                                  \* 11
       Call("save_config"),                                       \* 12
       Return("status port") >>                                   \* 13

Huawei___init__ ==
    << Sendline("super"),                                          \* 1
       Await("Unrecognized command|Now user privilege, Pass, User privilege level is",
             <<4, 3, 4>>),                                         \* 2
       Sendline("privilege_mode_password"),                        \* 3
       Await("<view>, [edit]", <<7, 5>>),                          \* 4
       Sendline("quit"),                                           \* 5
       Await("<view>$", <<7>>),                                    \* 6
       Command("display version", TRUE, FALSE),                    \* 7
       Assign("model"),                                            \* 8
       If("'S2403' in self.model", 10, 13),                        \* 9
       Command("display device manuinfo", TRUE, FALSE),            \* 10
       Assign("mac"),                                              \* 11
       Assign("serialno"),                                         \* 12
       If("'S2326' in self.model", 14, 18),                        \* 13
       Command("display bridge mac-address", TRUE, FALSE),         \* 14
       Assign("mac"),                                              \* 15
       Command("display elabel", TRUE, FALSE),                     \* 16
       Assign("serialno"),                                         \* 17
       Return("None") >>                                           \* 18

Huawei_save_config ==
    << Sendline("save"),                                           \* 1
       Await("Are you sure [Y/N]", <<3>>),                         \* 2
       Sendline("Y"),                                              \* 3
       Sendline("\\n"),                                            \* 4
       Await("prompt, successfully", <<7, 6>>),                    \* 5
       Return("SAVED_OK"),                                         \* 6
       Return("SAVED_ERR") >>                                      \* 7

Huawei_reload_port ==
    << Sendline("system-view"),                                    \* 1
       View,                                                       \* 2
       Sendline("interface {port}"),                               \* 3
       Sendline("shutdown"),                                       \* 4
       Sleep,                                                      \* 5
       Sendline("undo shutdown"),                                  \* 6
       Sendline("quit"),                                           \* 7
       Await("[edit view]", <<9>>),                                \* 8
       Sendline("quit"),                                           \* 9
       Await("[edit view]", <<11>>),                               \* 10
       Call("save_config"),                                        \* 11
       Return("r + s") >>                                          \* 12

Huawei_set_port ==
    << Sendline("system-view"),                                    \* 1
       View,                                                       \* 2
       Sendline("interface {port}"),                               \* 3
       If("status == 'up'", 5, 7),                                 \* 4
       Sendline("undo shutdown"),                                  \* 5
       Jump(9),                                                    \* 6
       If("status == 'down'", 8, 9),                               \* 7
       Sendline("shutdown"),                                       \* 8
       Await("[edit view]", <<10>>),                               \* 9
       Sendline("quit"),                                           \* 10
       Await("[edit view]", <<12>>),                               \* 11
       Sendline("quit"),                                           \* 12
       Await("[edit view]", <<14>>),                               \* 13
       Call("save_config"),                                        \* 14
       Return("r + s") >>                                          \* 15

\* for _ in range(3)
Cisco___init__ ==
    << Command("show version", TRUE, FALSE),                       \* 1
       Assign("serialno"),                                         \* 2
       Assign("mac"),                                              \* 3
       Return("None") >>                                           \* 4

SaveTries == 3

\* for _ in range(3), written out
Cisco_save_config ==
    << Sendline("write"),                                          \* 1
       Await("prompt, [OK]", <<3, 7>>),                            \* 2
       Sendline("write"),                                          \* 3
       Await("prompt, [OK]", <<5, 7>>),                            \* 4
       Sendline("write"),                                          \* 5
       Await("prompt, [OK]", <<8, 7>>),                            \* 6
       Return("SAVED_OK"),                                         \* 7
       Return("SAVED_ERR") >>                                      \* 8

Cisco_get_mac ==
    << View,                                                       \* 1
       Command("show mac address-table interface {port}", FALSE, FALSE), \* 2
       Return("findall") >>                                        \* 3

Cisco_reload_port ==
    << Sendline("configure terminal"),                             \* 1
       Await("prompt", <<3>>),                                     \* 2
       View,                                                       \* 3
       Sendline("interface {port}"),                               \* 4
       Await("prompt", <<6>>),                                     \* 5
       Sendline("shutdown"),                                       \* 6
       Sleep,                                                      \* 7
       Sendline("no shutdown"),                                    \* 8
       Await("prompt", <<10>>),                                    \* 9
       Sendline("end"),                                            \* 10
       Call("save_config"),                                        \* 11
       Return("r + s") >>                                          \* 12

Cisco_set_port ==
    << Sendline("configure terminal"),                             \* 1
       Await("prompt", <<3>>),                                     \* 2
       View,                                                       \* 3
       Sendline("interface {port}"),                               \* 4
       Await("prompt", <<6>>),                                     \* 5
       If("status == 'up'", 7, 9),                                 \* 6
       Sendline("no shutdown"),                                    \* 7
       Jump(11),                                                   \* 8
       If("status == 'down'", 10, 11),                             \* 9
       Sendline("shutdown"),                                       \* 10
       Sendline("end"),                                            \* 11
       Await("prompt", <<13>>),                                    \* 12
       Call("save_config"),                                        \* 13
       Return("r + s") >>                                          \* 14

\* status is kept in privileged and stored in _admin_status at the end
Dlink___init__ ==
    << Set("privileged"),                                          \* 1
       Sendline("enable admin"),                                   \* 2
       Await("Pass, You already have", <<4, 5>>),                  \* 3
       Sendline("privilege_mode_password"),                        \* 4
       AwaitQuiet("prompt, Fail!", <<9, 6>>, 0, {2}),              \* 5
       Sendline("\\n"),                                            \* 6
       Set("unprivileged"),                                        \* 7
       Jump(5),                                                    \* 8
       If("privileged", 10, 12),                                   \* 9
       Sendline("disable clipaging"),                              \* 10
       Await("prompt", <<12>>),                                    \* 11
       Command("show switch", FALSE, TRUE),                        \* 12
       Assign("mac"),                                              \* 13
       Assign("model"),                                            \* 14
       Assign("serialno"),                                         \* 15
       Return("None") >>                                           \* 16

Dlink_save_config ==
    << Sendline("save"),                                           \* 1
       Await("prompt, Success", <<4, 3>>),                         \* 2
       Return("SAVED_OK"),                                         \* 3
       Return("SAVED_ERR") >>                                      \* 4

Dlink_get_interfaces ==
    << Sendline("show ports des"),                                 \* 1
       Await("#", <<3>>),                                          \* 2
       Return("interfaces") >>                                     \* 3

Dlink_get_mac ==
    << Command("show fdb port {port}", FALSE, TRUE),               \* 1
       Return("findall") >>                                        \* 2

Dlink_reload_port ==
    << If("port is None", 2, 3),                                   \* 1
       Return("invalid port"),                                     \* 2
       Command("config ports {port} state disable", FALSE, TRUE),  \* 3
       Sleep,                                                      \* 4
       Command("config ports {port} state enable", FALSE, TRUE),   \* 5
       Call("save_config"),                                        \* 6
       Return("r1 + r2 + s") >>                                    \* 7

Dlink_set_port ==
    << If("port is None", 2, 3),                                   \* 1
       Return("invalid port"),                                     \* 2
       Command("config ports {port} state {state}", FALSE, TRUE),  \* 3
       Call("save_config"),                                        \* 4
       Return("r + s") >>                                          \* 5

HuaweiMA5600T_save_config ==
    << Return("None") >>                                           \* 1

HuaweiMA5600T_split_port ==
    << If("type_ == 'ethernet'", 2, 4),                            \* 1
       Command("display board {indexes[0]}", TRUE, FALSE),         \* 2
       Eval("indexes[1]"),                                         \* 3
       Return("type_, indexes") >>                                 \* 4

HuaweiMA5600T_reload_port ==
    << Call("split_port"),                                         \* 1
       If("not type_ or len(indexes) != 3", 3, 4),                 \* 2
       Return("invalid port"),                                     \* 3
       Sendline("config"),                                         \* 4
       Sendline("interface {type_} {indexes}"),                    \* 5
       Await("prompt", <<7>>),                                     \* 6
       Sendline("{down} {port}"),                                  \* 7
       Await("{down} {port}", <<9>>),                              \* 8
       Sendline("\\n"),                                            \* 9
       Sleep,                                                      \* 10
       Sendline("{up} {port}"),                                    \* 11
       Await("{up} {port}", <<13>>),                               \* 12
       Sendline("\\n"),                                            \* 13
       Await("prompt", <<15>>),                                    \* 14
       Return("s") >>                                              \* 15

\* for _ in range(3), written out
EltexMES_save_config ==
    << Sendline("end"),                                            \* 1
       Await("prompt", <<3>>),                                     \* 2
       Sendline("write"),                                          \* 3
       Await("write", <<5>>),                                      \* 4
       Command("Y", FALSE, FALSE),                                 \* 5
       If("'succeed' in status", 15, 7),                           \* 6
       Sendline("write"),                                          \* 7
       Await("write", <<9>>),                                      \* 8
       Command("Y", FALSE, FALSE),                                 \* 9
       If("'succeed' in status", 15, 11),                          \* 10
       Sendline("write"),                                          \* 11
       Await("write", <<13>>),                                     \* 12
       Command("Y", FALSE, FALSE),                                 \* 13
       If("'succeed' in status", 15, 16),                          \* 14
       Return("SAVED_OK"),                                         \* 15
       Return("SAVED_ERR") >>                                      \* 16

\* 4, 5, 6: the test of output after match 0, 1 and TIMEOUT
EltexMES_get_interfaces ==
    << Sendline("show interfaces description"),                    \* 1
       Await("show interfaces description", <<3>>),                \* 2
       AwaitQuiet("prompt, space_prompt, TIMEOUT", <<4, 5, 6>>, 3, {2}), \* 3
       If("'Ch       Port Mode (VLAN)' in output", 9, 11),         \* 4
       If("'Ch       Port Mode (VLAN)' in output", 9, 7),          \* 5
       If("'Ch       Port Mode (VLAN)' in output", 9, 11),         \* 6
       Send(" "),                                                  \* 7
       Jump(3),                                                    \* 8
       Sendline("q"),                                              \* 9
       Await("prompt", <<11>>),                                    \* 10
       Return("interfaces") >>                                     \* 11

EltexMES_get_mac ==
    << View,                                                       \* 1
       Command("show mac address-table interface {port}", TRUE, FALSE), \* 2
       Return("findall") >>                                        \* 3

EltexMES_reload_port ==
    << Sendline("configure terminal"),                             \* 1
       Await("#", <<3>>),                                          \* 2
       View,                                                       \* 3
       Sendline("interface {port}"),                               \* 4
       Sendline("shutdown"),                                       \* 5
       Sleep,                                                      \* 6
       Sendline("no shutdown"),                                    \* 7
       Sendline("end"),                                            \* 8
       Await("#", <<10>>),                                         \* 9
       If("save_config", 11, 12),                                  \* 10
       Call("save_config"),                                        \* 11
       Return("r + s") >>                                          \* 12

EltexMES_set_port ==
    << Sendline("configure terminal"),                             \* 1
       Await("(config)#", <<3>>),                                  \* 2
       View,                                                       \* 3
       Sendline("interface {port}"),                               \* 4
       If("status == 'up'", 6, 8),                                 \* 5
       Sendline("no shutdown"),                                    \* 6
       Jump(10),                                                   \* 7
       If("status == 'down'", 9, 10),                              \* 8
       Sendline("shutdown"),                                       \* 9
       Sendline("end"),                                            \* 10
       Await("#", <<12>>),                                         \* 11
       If("save_config", 13, 14),                                  \* 12
       Call("save_config"),                                        \* 13
       Return("r + s") >>                                          \* 14

\* A set_description that cuts a rejected description down to the limit,
\* sends it again and saves.
EltexMES_set_description_truncating ==
    << Sendline("configure terminal"),                             \* 1
       Await("prompt", <<3>>),                                     \* 2
       View,                                                       \* 3
       Sendline("interface {port}"),                               \* 4
       Await("prompt", <<6>>),                                     \* 5
       If("desc == ''", 7, 9),                                     \* 6
       Command("no description", FALSE, FALSE),                    \* 7
       Jump(10),                                                   \* 8
       Command("description {desc}", FALSE, FALSE),                \* 9
       If("'bad parameter value' in res", 11, 13),                 \* 10
       Command("description ?", TRUE, FALSE),                      \* 11
       Command("description {desc[:max]}", FALSE, FALSE),          \* 12
       Call("save_config"),                                        \* 13
       Return("Description has been") >>                           \* 14

\* desc is the description after clear_description
EltexMES_set_description ==
    << Sendline("configure terminal"),                             \* 1
       Await("prompt", <<3>>),                                     \* 2
       View,                                                       \* 3
       Sendline("interface {port}"),                               \* 4
       Await("prompt", <<6>>),                                     \* 5
       If("desc == ''", 7, 9),                                     \* 6
       Command("no description", FALSE, FALSE),                    \* 7
       Jump(10),                                                   \* 8
       Command("description {desc}", FALSE, FALSE),                \* 9
       If("'bad parameter value' in res", 11, 13),                 \* 10
       Command("description ?", TRUE, FALSE),                      \* 11
       Return("Max length:"),                                      \* 12
       Call("save_config"),                                        \* 13
       Return("Description has been") >>                           \* 14

\* A save_config that reports success without looking at the answer to
\* 'confirm'.
EltexESR_save_config_unchecked ==
    << Sendline("commit"),                                         \* 1
       Await("prompt, successfully applied, Unknown command", <<6, 6, 3>>),  \* 2
       Sendline("end"),                                            \* 3
       Sendline("commit"),                                         \* 4
       Await("prompt, successfully applied", <<6, 6>>),            \* 5
       Command("confirm", TRUE, FALSE),                            \* 6
       Jump(8),                                                    \* 7
       Return("SAVED_OK"),                                         \* 8
       Return("SAVED_ERR") >>                                      \* 9

EltexESR_save_config ==
    << Sendline("commit"),                                         \* 1
       Await("prompt, successfully applied, Unknown command", <<6, 6, 3>>),  \* 2
       Sendline("end"),                                            \* 3
       Sendline("commit"),                                         \* 4
       Await("prompt, successfully applied", <<6, 6>>),            \* 5
       Command("confirm", TRUE, FALSE),                            \* 6
       If("'Configuration has been confirmed' in status", 8, 9),   \* 7
       Return("SAVED_OK"),                                         \* 8
       Return("SAVED_ERR") >>                                      \* 9

(***************************************************************************)
(* Running a driver method.                                                *)
(***************************************************************************)
Drivers == {"ZTE", "Huawei", "Cisco", "Dlink", "HuaweiMA5600T", "EltexMES", "EltexESR"}

\* The methods of class cls; BaseDevice.send_command is inherited (D-Link
\* overrides only its defaults).
Code(cls, routine) ==
    CASE routine = "send_command" -> send_command
      [] cls = "ZTE" /\ routine = "__init__" -> ZTE___init__
      [] cls = "ZTE" /\ routine = "get_mac" -> ZTE_get_mac
      [] cls = "ZTE" /\ routine = "save_config" -> ZTE_save_config
      [] cls = "ZTE" /\ routine = "reload_port" -> ZTE_reload_port
      [] cls = "ZTE" /\ routine = "set_port" -> ZTE_set_port
      [] cls = "Huawei" /\ routine = "__init__" -> Huawei___init__
      [] cls = "Huawei" /\ routine = "save_config" -> Huawei_save_config
      [] cls = "Huawei" /\ routine = "reload_port" -> Huawei_reload_port
      [] cls = "Huawei" /\ routine = "set_port" -> Huawei_set_port
      [] cls = "Cisco" /\ routine = "__init__" -> Cisco___init__
      [] cls = "Cisco" /\ routine = "save_config" -> Cisco_save_config
      [] cls = "Cisco" /\ routine = "get_mac" -> Cisco_get_mac
      [] cls = "Cisco" /\ routine = "reload_port" -> Cisco_reload_port
      [] cls = "Cisco" /\ routine = "set_port" -> Cisco_set_port
      [] cls = "Dlink" /\ routine = "__init__" -> Dlink___init__
      [] cls = "Dlink" /\ routine = "save_config" -> Dlink_save_config
      [] cls = "Dlink" /\ routine = "get_interfaces" -> Dlink_get_interfaces
      [] cls = "Dlink" /\ routine = "get_mac" -> Dlink_get_mac
      [] cls = "Dlink" /\ routine = "reload_port" -> Dlink_reload_port
      [] cls = "Dlink" /\ routine = "set_port" -> Dlink_set_port
      [] cls = "HuaweiMA5600T" /\ routine = "save_config" -> HuaweiMA5600T_save_config
      [] cls = "HuaweiMA5600T" /\ routine = "split_port" -> HuaweiMA5600T_split_port
      [] cls = "HuaweiMA5600T" /\ routine = "reload_port" -> HuaweiMA5600T_reload_port
      [] cls = "EltexMES" /\ routine = "save_config" -> EltexMES_save_config
      [] cls = "EltexMES" /\ routine = "get_interfaces" -> EltexMES_get_interfaces
      [] cls = "EltexMES" /\ routine = "get_mac" -> EltexMES_get_mac
      [] cls = "EltexMES" /\ routine = "reload_port" -> EltexMES_reload_port
      [] cls = "EltexMES" /\ routine = "set_port" -> EltexMES_set_port
      [] cls = "EltexMES" /\ routine = "set_description" -> EltexMES_set_description
      [] cls = "EltexESR" /\ routine = "save_config" -> EltexESR_save_config

\* The methods a caller invokes on a driver of class cls.
Operations(cls) ==
    CASE cls = "ZTE" -> {"get_mac", "save_config", "reload_port", "set_port"}
      [] cls = "Huawei" -> {"save_config", "reload_port", "set_port"}
      [] cls = "Cisco" -> {"save_config", "get_mac", "reload_port", "set_port"}
      [] cls = "Dlink" -> {"save_config", "get_interfaces", "get_mac", "reload_port",
                           "set_port"}
      [] cls = "HuaweiMA5600T" -> {"save_config", "reload_port"}
      [] cls = "EltexMES" -> {"save_config", "get_interfaces", "get_mac", "reload_port",
                              "set_port", "set_description"}
      [] cls = "EltexESR" -> {"save_config"}

\* Classes whose constructor performs an elevation step that the model runs.
Elevating == {"ZTE", "Dlink"}
\* The class attribute vendor.
Vendor(cls) ==
    CASE cls = "ZTE" -> "ZTE"
      [] cls = "Huawei" -> "Huawei"
      [] cls = "Cisco" -> "Cisco"
      [] cls = "Dlink" -> "D-Link"
      [] cls = "HuaweiMA5600T" -> "Huawei"
      [] cls = "EltexMES" -> "Eltex"
      [] cls = "EltexESR" -> "Eltex"

\* Classes whose constructor the model runs.
Constructing == Elevating \cup {"Huawei", "Cisco"}

\* What find_or_empty can find for a field in the device's answer: '' on a
\* miss; the Huawei model decides which commands the constructor goes on with.
Finds(cls, field) ==
    IF cls = "Huawei" /\ field = "model" THEN {"", "S2403", "S2326"}
    ELSE IF field = "model" THEN {"", "DES-1210"}
    ELSE IF field = "serialno" THEN {"", "SN1"}
    ELSE {"", "00-11-22"}

\* The class attribute space_prompt is set (D-Link: None).
SpacePrompt(cls) == cls # "Dlink"

\* Port arguments: a leading word and the number of '/'-separated digit
\* groups after it: '' (''), '7' ("", 1), 'Gi0/1' ("Gi", 2), 'Gi' ("Gi", 0),
\* 'abc' ("x", 0), 'adsl0/2/4' ("adsl", 3), 'ethernet0' ("ethernet", 1).
Ports == [prefix : {"", "Gi", "x", "adsl", "ethernet"}, digits : 0..3]
Statuses == {"up", "down", "flap"}
Descs == {"", "uplink"}

\* str.isdigit() after strip(), ZTE.validate_port
ZteValidatePort(p) == p.prefix = "" /\ p.digits = 1
\* Dlink.validate_port: 'd/dd' or any string with a digit gives digits
DlinkValidatePort(p) == p.digits > 0
\* HuaweiMA5600T.split_port: type_ is found and indexes has three parts
SplitPortValid(p) == p.prefix \in {"adsl", "ethernet"} /\ p.digits = 3

\* Expressions that raise IndexError: interface_number[0][0] when the name
\* starts like an interface and has no digit, indexes[1] when there is no '/'.
Raises(expr, p) ==
    CASE expr = "_interface_normal_view(port)" ->
             p.prefix \in {"Gi", "ethernet"} /\ p.digits = 0
      [] expr = "indexes[1]" -> p.digits < 2

\* Tests of what the device wrote: the device decides them.
TextConds == {"'succeed' in status", "'bad parameter value' in res",
              "'Configuration has been confirmed' in status",
              "'Ch       Port Mode (VLAN)' in output"}

Frame(routine, cmd, ec, bc) ==
    [routine |-> routine, at |-> 1, cmd |-> cmd, ec |-> ec, bc |-> bc]
Top == stack[Len(stack)]
Here == Code(driver, Top.routine)[Top.at]
Running(op) == stack # <<>> /\ Here.op = op
Event(ev, text, n) == [ev |-> ev, text |-> text, by |-> Top.routine, n |-> n]
Goto(to) == stack' = [stack EXCEPT ![Len(stack)].at = to]
Raise(e) == stack' = <<>> /\ ret' = Returned("raise", e)

\* BaseDevice.clear_description: an empty text stays empty, the
\* characters of an ordinary text are kept.
ClearDescription(d) == d

\* The conditions of the if statements that the driver's own state decides.
Cond(c) ==
    CASE c = "True" -> TRUE
      [] c = "privileged" -> privileged
      [] c = "port is None" ->
             IF driver = "ZTE" THEN ~ZteValidatePort(port) ELSE ~DlinkValidatePort(port)
      [] c = "'S2403' in self.model" -> identity.model = "S2403"
      [] c = "'S2326' in self.model" -> identity.model = "S2326"
      [] c = "status == 'up'" -> status = "up"
      [] c = "status == 'down'" -> status = "down"
      [] c = "expect_command" -> Top.ec
      [] c = "before_catch" -> Top.bc
      [] c = "space_prompt" -> SpacePrompt(driver)
      [] c = "desc == ''" -> ClearDescription(desc) = ""
      [] c = "save_config" -> save_config
      [] c = "type_ == 'ethernet'" -> port.prefix = "ethernet"
      [] c = "not type_ or len(indexes) != 3" -> ~SplitPortValid(port)

argVars == <<driver, port, status, desc, save_config>>

\* The caller invokes a method of the constructed driver.
DrvCall ==
    /\ stack = <<>>
    /\ oper = ""
    /\ ret.kind = "return"
    /\ \E o \in Operations(driver) :
          /\ oper' = o
          /\ stack' = <<Frame(o, "", FALSE, FALSE)>>
          /\ port' \in (IF o \in {"save_config", "get_interfaces"} THEN {NoPort} ELSE Ports)
          /\ status' \in (IF o = "set_port" THEN Statuses ELSE {""})
          /\ desc' \in (IF o = "set_description" THEN Descs ELSE {""})
          /\ save_config' \in (IF driver = "EltexMES" /\ o \in {"reload_port", "set_port"}
                               THEN BOOLEAN ELSE {TRUE})
    /\ ret' = Pending
    /\ UNCHANGED <<sessVars, clsVars, cmdVars, fnVars, driver, privileged, identity, match,
                   said, wire, again>>

\* self.session.sendline(...)
DoSendline ==
    /\ Running("sendline")
    /\ wire' = Append(wire, Event("line", IF Here.text = "command" THEN Top.cmd
                                          ELSE Here.text, 0))
    /\ Goto(Top.at + 1)
    /\ UNCHANGED <<sessVars, clsVars, cmdVars, fnVars, argVars, identity, oper, privileged, match,
                   said, ret, again>>

\* self.session.send(" ")
DoSend ==
    /\ Running("send")
    /\ wire' = Append(wire, Event("key", Here.text, 0))
    /\ Goto(Top.at + 1)
    /\ UNCHANGED <<sessVars, clsVars, cmdVars, fnVars, argVars, identity, oper, privileged, match,
                   said, ret, again>>

\* time.sleep(1)
DoSleep ==
    /\ Running("sleep")
    /\ wire' = Append(wire, Event("sleep", "", 0))
    /\ Goto(Top.at + 1)
    /\ UNCHANGED <<sessVars, clsVars, cmdVars, fnVars, argVars, identity, oper, privileged, match,
                   said, ret, again>>

\* An expression of the next statement is evaluated: it raises or it does not.
DoEval ==
    /\ Running("eval")
    /\ IF Raises(Here.text, port)
       THEN Raise("IndexError")
       ELSE Goto(Top.at + 1) /\ UNCHANGED ret
    /\ UNCHANGED <<sessVars, clsVars, cmdVars, fnVars, argVars, identity, oper, privileged, match,
                   said, wire, again>>

\* self.session.expect(...): the device shows one of the patterns (o >= 1)
\* or nothing at all (o = 0).
DoExpect ==
    /\ Running("expect")
    /\ \E o \in 0..Len(Here.goto) :
          /\ o # 0 => o # Here.quiet
          /\ o \in Here.loops => again < MaxAgain
          /\ again' = IF o \in Here.loops THEN again + 1 ELSE again
          /\ IF o = 0 /\ Here.quiet = 0
             THEN \* pexpect.TIMEOUT is raised and nothing catches it
                  /\ wire' = Append(wire, Event("timeout", Here.text, 0))
                  /\ Raise("TIMEOUT")
                  /\ UNCHANGED match
             ELSE IF o = 0
             THEN /\ wire' = Append(wire, Event("timeout", Here.text, 0))
                  /\ match' = Here.quiet - 1
                  /\ Goto(Here.goto[Here.quiet])
                  /\ UNCHANGED ret
             ELSE /\ wire' = Append(wire, Event("match", Here.text, o - 1))
                  /\ match' = o - 1
                  /\ Goto(Here.goto[o])
                  /\ UNCHANGED ret
    /\ UNCHANGED <<sessVars, clsVars, cmdVars, fnVars, argVars, identity, oper, privileged, said>>

\* A call of another method of the driver, or of send_command.
DoInvoke ==
    /\ stack # <<>>
    /\ Here.op \in {"call", "command"}
    /\ wire' = Append(wire, Event("call", IF Here.op = "call" THEN Here.text
                                          ELSE "send_command", 0))
    /\ stack' = Append(stack, IF Here.op = "call" THEN Frame(Here.text, "", FALSE, FALSE)
                              ELSE Frame("send_command", Here.text, Here.ec, Here.bc))
    /\ UNCHANGED <<sessVars, clsVars, cmdVars, fnVars, argVars, identity, oper, privileged, match,
                   said, ret, again>>

\* An if statement; what a test of the device's text finds is up to the device.
DoIf ==
    /\ Running("if")
    /\ \E found \in BOOLEAN :
          /\ Here.text \notin TextConds => found = Cond(Here.text)
          /\ Goto(Here.goto[IF found THEN 1 ELSE 2])
          /\ said' = IF Here.text \notin TextConds THEN said
                     ELSE IF found THEN Here.text ELSE ""
          /\ wire' = IF Here.text \notin TextConds THEN wire
                     ELSE Append(wire, Event("test", Here.text, IF found THEN 1 ELSE 0))
    /\ UNCHANGED <<sessVars, clsVars, cmdVars, fnVars, argVars, identity, oper, privileged, match,
                   ret, again>>

\* self.__privileged = ... (ZTE), status = ... (D-Link)
DoSet ==
    /\ Running("set")
    /\ privileged' = (Here.text = "privileged")
    /\ Goto(Top.at + 1)
    /\ UNCHANGED <<sessVars, clsVars, cmdVars, fnVars, argVars, identity, oper, match, said, wire,
                   ret, again>>

\* self.mac = self.find_or_empty(...): what the pattern finds is up to the
\* device; D-Link keeps a model it already has (self.model or ...).
DoAssign ==
    /\ Running("assign")
    /\ \E found \in Finds(driver, Here.text) :
          identity' = [identity EXCEPT ![Here.text] =
                          IF driver = "Dlink" /\ Here.text = "model" /\ identity.model # ""
                          THEN identity.model ELSE found]
    /\ Goto(Top.at + 1)
    /\ UNCHANGED <<sessVars, clsVars, cmdVars, fnVars, argVars, oper, privileged, match, said,
                   wire, ret, again>>

\* return: the caller goes on after the call, the outermost method hands
\* its value to the caller of the driver.
DoReturn ==
    /\ Running("return")
    /\ IF Len(stack) = 1 /\ Top.routine = "__init__"
       THEN \* the driver is handed to the caller: the history starts again
            \* and the locals of the constructor are gone
            /\ wire' = <<Event("return", Here.text, 0)>>
            /\ match' = 0
            /\ said' = ""
            /\ again' = 0
       ELSE /\ wire' = Append(wire, Event("return", Here.text, 0))
            /\ UNCHANGED <<match, said, again>>
    /\ IF Len(stack) = 1
       THEN /\ stack' = <<>>
            /\ ret' = Returned("return", Here.text)
       ELSE /\ stack' = [SubSeq(stack, 1, Len(stack) - 1)
                            EXCEPT ![Len(stack) - 1].at = stack[Len(stack) - 1].at + 1]
            /\ UNCHANGED ret
    /\ UNCHANGED <<sessVars, clsVars, cmdVars, fnVars, argVars, identity, oper, privileged>>

\* A driver object: under construction when its constructor elevates,
\* constructed otherwise.
InitDriver ==
    /\ \E cls \in Drivers : DriverSession(cls) /\ driver = cls
    /\ CmdIdle
    /\ FnIdle
    /\ oper = ""
    /\ port = NoPort
    /\ status = ""
    /\ desc = ""
    /\ save_config = TRUE
    /\ privileged = FALSE
    /\ identity = [NoIdentity EXCEPT !.model = CtorModel(selected, version)]
    /\ stack = (IF driver \in Constructing THEN <<Frame("__init__", "", FALSE, FALSE)>>
                ELSE <<>>)
    /\ match = 0
    /\ said = ""
    /\ wire = <<>>
    /\ ret = (IF driver \in Constructing THEN Pending ELSE Returned("return", "None"))
    /\ again = 0

NextDriver ==
    \/ DrvCall
    \/ DoSendline \/ DoSend \/ DoSleep \/ DoEval \/ DoExpect \/ DoInvoke \/ DoIf
    \/ DoSet \/ DoAssign \/ DoReturn

SpecDriver == InitDriver /\ [][NextDriver]_vars

(***************************************************************************)
(* Claims.                                                                 *)
(***************************************************************************)

\* A Telnet device that only ever showed a login prompt followed by a
\* password prompt, and rejects every pair.
RejectingTelnetDevice ==
    /\ protocol = "telnet"
    /\ goodPair = 0
    /\ anomalies = 0
    /\ sent = <<>>
    /\ pc = "tel_loop"
    /\ Len(loginSent) = Len(pwSent) + (IF show = "password" THEN 1 ELSE 0)

\* C1: against a Telnet device that rejects every pair, each of the N pairs is
\* typed exactly once, in list order (pair i is the i-th password typed), and
\* success is never reported.
C1_EachPairOnceInOrder ==
    RejectingTelnetDevice =>
        /\ \A i \in DOMAIN pwSent : pwSent[i] = i
        /\ ~connected

\* C2: once a key exchange (cipher) override is on the command line of an ssh
\* child, it is on the command line of every ssh child spawned later.
C2_OverridesAccumulate ==
    \A i \in DOMAIN streams : \A j \in DOMAIN streams :
        (i < j /\ protocol = "ssh") =>
            /\ (streams[i].kex # <<>> => streams[j].kex # <<>>)
            /\ (streams[i].cipher # "" => streams[j].cipher # "")

\* C2 witness: a cipher rejection after a resolved key exchange rejection has
\* respawned the client with both overrides.
C2_Witness ==
    /\ protocol = "ssh"
    /\ \E i \in DOMAIN streams : \E j \in DOMAIN streams :
          /\ i < j
          /\ streams[i].kex # <<>> /\ streams[i].cipher = ""
          /\ streams[j].kex # <<>> /\ streams[j].cipher # ""

\* The pages of an answer with n 'more' banners, simply concatenated.
Concatenated(n) == [i \in 1..(n + 1) |-> PageTok(i)]
\* The same pages with a line break after every page that ended in a banner.
JoinedByLineBreaks(n) ==
    [k \in 1..(2 * n + 1) |-> IF k % 2 = 1 THEN PageTok((k + 1) \div 2) ELSE NL]

MoreCount(f) == Cardinality({i \in DOMAIN f : f[i].mark = "more"})
HasMark(f, mark) == \E i \in DOMAIN f : f[i].mark = mark

\* send_command has returned from the page loop, without a page limit, on a
\* device that showed its banners and then the prompt, the echo and the anchor
\* having been consumed by their own waits.
PagedRoundTrip ==
    /\ cpc = "done"
    /\ space_prompt
    /\ pages_limit = None
    /\ HasMark(feed, "prompt")
    /\ HasMark(feed, "echo") => expect_command
    /\ HasMark(feed, "anchor") => before_catch

\* C3 as stated: N banners give N keystrokes and the plain concatenation of the
\* N + 1 pages.
C3_PlainConcatenation ==
    PagedRoundTrip =>
        /\ keys = MoreCount(feed)
        /\ output = Concatenated(MoreCount(feed))

\* C3 amended: N banners give N keystrokes and the N + 1 pages in order, with a
\* line break after each page that ended in a banner.
C3_PagesJoinedByLineBreaks ==
    PagedRoundTrip =>
        /\ keys = MoreCount(feed)
        /\ output = JoinedByLineBreaks(MoreCount(feed))

\* C3 witness: a round trip over two banners and three pages.
C3_Witness ==
    /\ PagedRoundTrip
    /\ MoreCount(feed) = 2
    /\ keys = 2
    /\ Len(output) = 5

\* C4: when SSH negotiation ended with connected = true, the child on which
\* 'show version' is written is open.
C4_ProbeOnLiveStream ==
    \A k \in DOMAIN sent :
        (protocol = "ssh" /\ connected /\ sent[k][2] = "show version") => sent[k][3]

\* Every SSH pair, admin/admin included, had its password typed and rejected.
SshAllRejected ==
    /\ protocol = "ssh"
    /\ ~connected
    /\ anomalies = 0
    /\ Len(pwSent) = nCreds + 1
    /\ pc # "ssh_for"

\* C5: when every SSH pair was rejected, no 'show version' is written and what
\* is raised is the login error.
C5_AuthFailureIsLoginError ==
    SshAllRejected =>
        /\ \A k \in DOMAIN sent : sent[k][2] # "show version"
        /\ exc \in {"", "DeviceLoginError"}

\* C6: classification ends with a driver or with the unknown-device error.
C6_DriverOrUnknownDeviceError ==
    (pc \in {"returned", "exited", "raised"}) =>
        \/ result.kind = "driver"
        \/ exc = "UnknownDeviceError"

\* The signature table in its fixed order: the texts that select an entry,
\* whether the output is lowercased first, and the constructors it can call.
SignatureTable ==
    << [texts |-> {"Image stamp:"}, lower |-> FALSE, ctors |-> {"ProCurve"}],
       [texts |-> {" ZTE Corporation:"}, lower |-> FALSE, ctors |-> {"ZTE"}],
       [texts |-> {"Unrecognized command"}, lower |-> FALSE, ctors |-> {"Huawei"}],
       [texts |-> {"cisco"}, lower |-> TRUE, ctors |-> {"Cisco"}],
       [texts |-> {"Next possible completions:"}, lower |-> FALSE, ctors |-> {"Dlink"}],
       [texts |-> {"Hardware version"}, lower |-> FALSE, ctors |-> {"EdgeCore"}],
       [texts |-> {"Active-image:", "Boot version:"}, lower |-> FALSE,
        ctors |-> {"EltexMES", "EltexESR"}],
       [texts |-> {"ExtremeXOS"}, lower |-> FALSE, ctors |-> {"Extreme"}],
       [texts |-> {"QTECH"}, lower |-> FALSE, ctors |-> {"Qtech"}],
       [texts |-> {"ISKRATEL"}, lower |-> FALSE, ctors |-> {"IskratelControl"}],
       [texts |-> {"IskraTEL"}, lower |-> FALSE, ctors |-> {"IskratelMBan"}],
       [texts |-> {"% Unknown command"}, lower |-> FALSE, ctors |-> {"HuaweiMA5600T"}],
       [texts |-> {"show: invalid command, valid commands are"}, lower |-> FALSE,
        ctors |-> {}],
       [texts |-> {"unknown keyword show"}, lower |-> FALSE, ctors |-> {"Juniper"}] >>

EntryMatches(e, v) ==
    e.texts \cap (IF e.lower THEN {Lower(t) : t \in v} ELSE v) # {}

\* Index of the first table entry that matches v, 0 when none does.
FirstEntry(v) ==
    LET hits == {i \in DOMAIN SignatureTable : EntryMatches(SignatureTable[i], v)}
    IN  IF hits = {} THEN 0 ELSE CHOOSE i \in hits : \A j \in hits : i <= j

\* The constructors the branch taken can call.
CtorsOfSelected ==
    CASE selected \in DirectCtors -> {selected}
      [] selected = "Eltex" -> {"EltexMES", "EltexESR"}
      [] selected = "DisplayVersion" -> {"HuaweiMA5600T"}
      [] OTHER -> {}

\* C7: the branch taken is that of the first table entry matching the probe
\* output accumulated by the first probe, none when no entry matches, and a
\* driver handed out is built by a constructor of that entry.
C7_FirstMatchWins ==
    selected # "" =>
        /\ IF FirstEntry(version) = 0 THEN selected = "NoMatch"
           ELSE CtorsOfSelected = SignatureTable[FirstEntry(version)].ctors
        /\ result.kind = "driver" =>
              /\ FirstEntry(version) # 0
              /\ result.what \in SignatureTable[FirstEntry(version)].ctors

\* C7 witness: an output with both 'Unrecognized command' and 'cisco' has
\* selected the Huawei constructor.
C7_Witness ==
    /\ {"Unrecognized command", "cisco"} \subseteq version
    /\ selected = "Huawei"
    /\ result = Returned("driver", "Huawei")

\* C8: once __enter__ has raised, or the caller has left its with block,
\* every child that was spawned is closed.
C8_EveryStreamClosed ==
    pc \in {"raised", "exited"} => \A i \in DOMAIN streams : streams[i].closed

\* C9: an __exit__ after an earlier __exit__ raises nothing, writes nothing and
\* leaves the session closed.
C9_SecondCloseIsNoOp ==
    [][(closeCalls >= 1 /\ closeCalls' = closeCalls + 1) =>
          /\ exc' = exc
          /\ exitSends' = exitSends
          /\ sent' = sent
          /\ streams' = streams
          /\ streams'[session'].closed]_vars

\* C9 witness: __exit__ was called twice on a session.
C9_Witness ==
    /\ closeCalls = 2
    /\ session \in DOMAIN streams
    /\ streams[session].closed
    /\ exitSends = 0
    /\ exc = ""

\* C10: no timeout of an expect() inside send_command escapes as an exception.
C10_TimeoutNeverRaises ==
    timedOut => (cexc = "" /\ cpc # "raised")

\* C13: send_command called with pages_limit = k sends at most k continuation
\* keystrokes, for every k >= 0, however many 'more' banners the device
\* would still show.
C13_PagesLimitCapsKeys ==
    \A k \in 0..MaxLimit : (cpc = "call" /\ pages_limit = k) => [](keys <= k)

\* A call that used up its page limit while the device still had a 'more'
\* banner to show.
C13_Witness ==
    /\ cpc = "done"
    /\ space_prompt
    /\ pages_limit = 0
    /\ keys > 0
    /\ FirstMatch(feed, pos, {"more"}) # 0

\* The integers a _range_to_numbers argument covers.
Covered(str) ==
    UNION {IF str.parts[i].hi # 0 THEN str.parts[i].lo..str.parts[i].hi
           ELSE {str.parts[i].lo} : i \in 1..Len(str.parts)}

\* C16: for a string of comma-separated integers and 'a-b' ranges, or of
\* 'a to b' ranges, _range_to_numbers returns exactly the integers covered,
\* in ascending order and each of them once, also when ranges overlap or a
\* number is listed twice.
C16_SortedNoDuplicates ==
    fpc = "done" =>
        /\ {numbers[i] : i \in 1..Len(numbers)} = Covered(ports_string)
        /\ \A i \in 1..(Len(numbers) - 1) : numbers[i] < numbers[i + 1]

\* C20: driver construction is best effort: when the probe output of a
\* constructor does not contain the model pattern, the field is left empty
\* and construction completes without raising, also in the intermediate
\* Eltex driver that reads the model from 'show system'.
C20_ConstructionBestEffort ==
    (selected = "Eltex" /\ eltexModel = "nomatch") => (pc # "raised" /\ exc = "")

\* Positions of wire at which something is written to the session.
Writes == {i \in 1..Len(wire) : wire[i].ev \in {"line", "key"}}
\* Positions of wire at which a wait on the session ended.
WaitEnds == {i \in 1..Len(wire) : wire[i].ev \in {"match", "timeout"}}

\* C11: at most one command is in flight on a Session: after a driver
\* operation has sent a command line it sends nothing further until a wait
\* on the session has ended by a match or a timeout.
C11_OneCommandInFlight ==
    \A i \in Writes, j \in Writes :
        (wire[i].ev = "line" /\ i < j) => \E k \in WaitEnds : i < k /\ k < j

\* C12: every continuation keystroke sent in answer to a 'more' banner
\* during a driver operation is sent by BaseDevice.send_command: no driver
\* method runs a page loop of its own.
C12_KeysOnlyBySendCommand ==
    \A i \in 1..Len(wire) : wire[i].ev = "key" => wire[i].by = "send_command"

\* Position of wire at which the constructor returned, 0 when the model
\* starts with a constructed driver.
Constructed ==
    LET ends == {i \in 1..Len(wire) : wire[i].ev = "return" /\ wire[i].by = "__init__"}
    IN  IF ends = {} THEN 0 ELSE CHOOSE i \in ends : TRUE

\* The texts with which a method declines to act.
Refusals == {"refused", "invalid port", "invalid status"}

\* C14: a driver whose constructor performs an elevation step (ZTE 'enable',
\* D-Link 'enable admin') and whose elevation failed refuses reload_port and
\* set_port: they send nothing on the session, raise nothing and return a
\* refusal.
C14_UnprivilegedRefuses ==
    (driver \in Elevating /\ oper \in {"reload_port", "set_port"} /\ ~privileged) =>
        /\ \A i \in Writes : i < Constructed
        /\ ret.kind # "raise"
        /\ ret.kind = "return" => ret.what \in Refusals

\* Port strings that are invalid under the numbering convention of class
\* cls: ZTE wants a number, the others a name with digits.
InvalidPort(cls, p) ==
    IF cls = "ZTE" THEN ~ZteValidatePort(p) ELSE p.digits = 0

\* C15: get_mac called with an invalid port identifier, also one without
\* digits, never raises and returns a list: [] where the driver validates, and
\* otherwise what the MAC pattern finds in the device's answer to the command.
C15_InvalidPortNeverRaises ==
    (oper = "get_mac" /\ InvalidPort(driver, port)) =>
        /\ ret.kind # "raise"
        /\ ret.kind = "return" => ret.what \in {"[]", "findall"}

\* Positions of wire at which save_config issued the persistence command.
SaveAttempts ==
    {i \in 1..Len(wire) :
        wire[i].ev = "line" /\ wire[i].text = "write" /\ wire[i].by = "save_config"}
\* Positions of wire at which the device confirmed an attempt: '[OK]' for
\* Cisco, 'succeed' in the answer for Eltex MES.
Confirmations ==
    {i \in 1..Len(wire) :
        \/ wire[i].ev = "match" /\ wire[i].text = "prompt, [OK]" /\ wire[i].n = 1
        \/ wire[i].ev = "test" /\ wire[i].text = "'succeed' in status" /\ wire[i].n = 1}
\* What save_config returned, when it did.
SaveReturned(value) ==
    \E i \in 1..Len(wire) :
        wire[i].ev = "return" /\ wire[i].by = "save_config" /\ wire[i].text = value

\* C17: save_config of Cisco and Eltex MES issues the persistence command
\* at most 3 times, returns SAVED_OK at the first attempt the device
\* confirms without a further attempt, and returns SAVED_ERR exactly when
\* all 3 attempts went unconfirmed.
C17_BoundedSaveRetries ==
    (driver \in {"Cisco", "EltexMES"} /\ oper = "save_config") =>
        /\ Cardinality(SaveAttempts) <= SaveTries
        /\ \A c \in Confirmations, a \in SaveAttempts : a < c
        /\ SaveReturned("SAVED_OK") => Confirmations # {}
        /\ (Confirmations # {} /\ ret.kind # "pending") => SaveReturned("SAVED_OK")
        /\ SaveReturned("SAVED_ERR") =>
               (Cardinality(SaveAttempts) = SaveTries /\ Confirmations = {})
        /\ (Cardinality(SaveAttempts) = SaveTries /\ Confirmations = {}
            /\ ret.kind # "pending") => SaveReturned("SAVED_ERR")

\* The command lines that disable and that enable a port.
DisableCmds == {"set port {port} disable", "shutdown",
                "config ports {port} state disable", "{down} {port}"}
EnableCmds == {"set port {port} enable", "undo shutdown", "no shutdown",
               "config ports {port} state enable", "{up} {port}"}

\* C18: a reload_port that went through on a valid port sent the disable
\* command, then let the settle delay pass, then sent the enable command,
\* and invoked save_config after that and before it returned.
C18_ReloadDisablesEnablesPersists ==
    (oper = "reload_port" /\ save_config /\ ret.kind = "return"
     /\ ret.what \notin Refusals) =>
        \E d \in Writes, s \in 1..Len(wire), e \in Writes, p \in 1..Len(wire) :
            /\ d < s /\ s < e /\ e < p
            /\ wire[d].text \in DisableCmds
            /\ wire[s].ev = "sleep"
            /\ wire[e].text \in EnableCmds
            /\ wire[p].ev = "call" /\ wire[p].text = "save_config"

\* Positions of wire at which the device's answer said the description is
\* too long.
Rejections ==
    {i \in 1..Len(wire) :
        wire[i].ev = "test" /\ wire[i].text = "'bad parameter value' in res"
        /\ wire[i].n = 1}
LineSent(text) == \E i \in Writes : wire[i].ev = "line" /\ wire[i].text = text

Count(s, x) == Cardinality({i \in DOMAIN s : s[i] = x})

\* A Telnet negotiation in which the device showed only login, password and
\* shell prompts.
PlainTelnet ==
    /\ protocol = "telnet"
    /\ anomalies = 0
    /\ sent = <<>>

\* C23: in Telnet, a login prompt that comes back after the password of the
\* current pair was typed makes the negotiator go on to the next pair: every
\* login and every password typed after the first is that of the pair after the
\* one typed before, and so no rejected pair is typed again.
C23_RejectionAdvancesPair ==
    PlainTelnet =>
        /\ \A j \in 2..Len(pwSent) : pwSent[j] = pwSent[j - 1] + 1
        /\ \A j \in 2..Len(loginSent) : loginSent[j] = loginSent[j - 1] + 1

\* The 'Press any key' banner was answered with a space, the login and the
\* password of the pair the device accepts, and the device showed its prompt.
AnyKeyAccepted ==
    /\ protocol = "telnet"
    /\ anomalies = 0
    /\ \E k \in DOMAIN sent : sent[k][2] = " "
    /\ pwSent # <<>>
    /\ Last(pwSent) = goodPair

\* C24: when the answer to the 'Press any key' banner (space, login, password)
\* is followed by the shell prompt, negotiation ends connected, with that pair
\* as the session's credentials.
C24_AnyKeyRecoveryConnects ==
    (AnyKeyAccepted /\ pc \in {"returned", "raised"}) =>
        /\ connected
        /\ recorded = goodPair

\* C25: the radius banner does not end the negotiation and leaves the pair
\* unchanged; every login and password typed in Telnet is that of the current
\* pair, so the sends after the banner use the pair in use before it.
C25_RadiusRetriesSamePair ==
    [][/\ (pc = "tel_loop" /\ show = "radius") =>
              /\ pc' = "tel_loop"
              /\ idx' = idx
              /\ result' = Pending
              /\ exc' = ""
              /\ loginSent' = loginSent
              /\ pwSent' = pwSent
       /\ (protocol = "telnet" /\ loginSent' # loginSent) => Last(loginSent') = idx
       /\ (protocol = "telnet" /\ pwSent' # pwSent) => Last(pwSent') = idx]_vars

\* C25 witness: the login of pair 1 was typed, the banner came instead of the
\* password prompt, and the login of pair 1 was typed again.
C25_Witness ==
    /\ protocol = "telnet"
    /\ anomalies = 1
    /\ loginSent = <<1, 1>>
    /\ pwSent = <<>>
    /\ show = "password"

\* C26: the Telnet negotiator gives a pair up after a bounded number of
\* attempts: the password of one pair is never typed as often as the model
\* lets passwords be typed at all.
C26_TelnetRetriesCapped ==
    protocol = "telnet" => \A p \in TelnetPairs : Count(pwSent, p) < MaxSends

TelnetUnavailable == Returned("text", "TelnetUnavailable")

\* C27: 'Connection closed' or 'Unable to connect' ends the Telnet negotiation
\* at once with the 'Telnet unavailable' text for the host, and after it no
\* login, no password and no probe is written.
C27_TransportFailureIsTerminal ==
    [][/\ (pc = "tel_loop" /\ show \in {"closed", "unable"}) =>
              /\ pc' = "returned"
              /\ result' = TelnetUnavailable
       /\ result = TelnetUnavailable =>
              /\ result' = TelnetUnavailable
              /\ UNCHANGED <<loginSent, pwSent, sent>>]_vars

\* C27 witness: the connection was closed after a login had been typed, the
\* text was returned and the caller has left its with block.
C27_Witness ==
    /\ result = TelnetUnavailable
    /\ show = "closed"
    /\ loginSent # <<>>
    /\ closeCalls >= 1

\* C28: SSH tries the pairs in list order, each password at most once,
\* admin/admin only after every supplied pair; the pair that reaches the shell
\* prompt is the one recorded, and no child is spawned for a later pair.
C28_SshPairsInOrderOnce ==
    protocol = "ssh" =>
        /\ \A i \in DOMAIN pwSent : \A j \in DOMAIN pwSent : i < j => pwSent[i] < pwSent[j]
        /\ \A i \in DOMAIN streams : \A j \in DOMAIN streams :
               i < j => streams[i].user <= streams[j].user
        /\ \A i \in DOMAIN streams :
               streams[i].user = nCreds + 1 =>
                   \A q \in 1..nCreds : \E j \in 1..(i - 1) : streams[j].user = q
        /\ connected =>
               /\ recorded = idx
               /\ \A i \in DOMAIN streams : streams[i].user <= recorded
               /\ \A i \in DOMAIN pwSent : pwSent[i] <= recorded

\* C28 witness: every supplied pair was rejected and admin/admin reached the
\* shell prompt.
C28_Witness ==
    /\ protocol = "ssh"
    /\ connected
    /\ recorded = nCreds + 1
    /\ Len(pwSent) = nCreds + 1

\* Respawns of the ssh client for pair p: children beyond the first.
Respawns(p) == Count([i \in DOMAIN streams |-> streams[i].user], p) - 1

\* C29: for each pair the ssh client is respawned at most 3 times.
C29_AlgorithmRespawnsBounded ==
    protocol = "ssh" => \A p \in SshPairs : Respawns(p) <= 3

\* C30: a host-key-type rejection is answered by a respawn, so it is never
\* the last thing a child showed once the wait loop has been left.
C30_HostKeyRejectionRespawns ==
    (protocol = "ssh" /\ show = "nohostkey") => (pc = "ssh_loop" /\ exc = "")

CiscoLikeOutput(v) ==
    /\ "cisco" \in VersionLower(v)
    /\ "Model number: WS-X" \in v
    /\ v \cap {"Image stamp:", " ZTE Corporation:", "Unrecognized command"} = {}

\* C22: for a Cisco-like probe output the driver handed to the caller is of
\* class Cisco, whose vendor tag is 'Cisco', and its model is 'WS-X'.
C22_CiscoScenario ==
    (CiscoLikeOutput(version) /\ result.kind = "driver" /\ Constructed # 0) =>
        /\ selected = "Cisco"
        /\ result.what = "Cisco"
        /\ driver = "Cisco"
        /\ Vendor(driver) = "Cisco"
        /\ identity.model = "WS-X"

\* C22 witness: the Cisco constructor has returned for such an output and
\* found the serial number.
C22_Witness ==
    /\ CiscoLikeOutput(version)
    /\ driver = "Cisco"
    /\ Constructed # 0
    /\ identity.model = "WS-X"
    /\ identity.serialno # ""

\* C31: when the ssh child shows 'Connection closed' or ends, negotiation ends
\* with pexpect.EOF raised, which is not what a login failure ends with; from
\* the moment the stream died no password is typed, no further pair is tried,
\* no child is spawned and nothing is written.
C31_SshStreamDeathIsTerminal ==
    [][/\ (pc = "ssh_loop" /\ show = "closed") =>
              /\ pc' = "ssh_loop"
              /\ show' = "eof"
       /\ (pc = "ssh_loop" /\ show = "eof") =>
              /\ pc' = "raised"
              /\ exc' = "EOF"
       /\ ((pc = "ssh_loop" /\ show \in {"closed", "eof"}) \/ (pc = "raised" /\ exc = "EOF")) =>
              /\ UNCHANGED <<pwSent, idx, sent, connected>>
              /\ Len(streams') = Len(streams)
              /\ result' = Pending]_vars

\* C31 witness: 'Connection closed' came after the password of pair 2 was
\* asked for... the stream died and pexpect.EOF left __enter__.
C31_Witness ==
    /\ protocol = "ssh"
    /\ pc = "raised"
    /\ exc = "EOF"
    /\ show = "eof"
    /\ anomalies = 1
    /\ ~connected

\* The pieces of text in o, as a set.
Texts(o) == {o[i] : i \in DOMAIN o}

\* The page loop of send_command ended on a timeout.
LoopTimedOut ==
    /\ cpc = "done"
    /\ space_prompt
    /\ timedOut

\* C32: when a wait of the page loop times out the call returns without
\* raising, no key is sent beyond the banners matched, and the output holds
\* every page read before, and what was received before the timeout.
C32_LoopTimeoutTruncates ==
    LoopTimedOut =>
        /\ cexc = ""
        /\ keys = Cardinality({i \in 1..pos : feed[i].mark = "more"})
        /\ \A i \in DOMAIN feed : feed[i].mark \in {"more", "stall"} => feed[i].text \in Texts(output)

\* C32 witness: two pages were read and the third was cut by the timeout.
C32_Witness ==
    /\ LoopTimedOut
    /\ keys = 2
    /\ PageTok(3) \in Texts(output)

\* C33: without a 'more' pattern send_command waits once: that one wait ends
\* the call, no key is sent, nothing is raised, and the output is what came
\* before the first prompt or, on a timeout, everything that was received.
C33_NoPaginationWaitsOnce ==
    [][cpc = "single" =>
          /\ ~space_prompt
          /\ cpc' = "done"
          /\ cexc' = ""
          /\ keys' = 0
          /\ output' = before'
          /\ IF timedOut'
             THEN /\ FirstMatch(feed, pos, {"prompt"}) = 0
                  /\ output' = TextAll(feed, pos + 1)
             ELSE /\ pos' = FirstMatch(feed, pos, {"prompt"})
                  /\ output' = TextBetween(feed, pos + 1, pos')]_vars

\* C33 witness: the single wait timed out and the text received is returned.
C33_Witness ==
    /\ ~space_prompt
    /\ cpc = "done"
    /\ timedOut
    /\ cexc = ""
    /\ output # <<>>

\* C34: by the time send_command waits for the prompt, the echo (when
\* expect_command) and then the anchor (when before_catch is given) have been
\* consumed, and their text is not in the output.
C34_EchoThenAnchorThenPrompt ==
    cpc \in {"loop", "single", "done"} =>
        /\ expect_command =>
               /\ \E i \in 1..pos : feed[i].mark = "echo"
               /\ <<"typed", 0>> \notin Texts(output)
        /\ before_catch =>
               /\ \E i \in 1..pos : feed[i].mark = "anchor"
               /\ <<"banner", 0>> \notin Texts(output)
        /\ (expect_command /\ before_catch) =>
               \E i \in 1..pos : \E j \in 1..pos :
                   i < j /\ feed[i].mark = "echo" /\ feed[j].mark = "anchor"

\* C34 witness: a call with echo and anchor has returned its pages.
C34_Witness ==
    /\ cpc = "done"
    /\ expect_command
    /\ before_catch
    /\ ~timedOut
    /\ PageTok(1) \in Texts(output)

\* C37: when send_command returns without a timeout, the last thing it
\* matched is the prompt.
C37_ReturnsAtPrompt ==
    (cpc = "done" /\ ~timedOut) =>
        /\ pos \in DOMAIN feed
        /\ feed[pos].mark = "prompt"

\* C36: the first probe loop of the classifier ends whatever the device does:
\* it never makes as many waits as the model lets a probe loop make.
C36_FirstProbeLoopEnds ==
    pc = "probe1" => probeWaits < MaxProbeWaits

\* C39: the 'display version' probe reads every page: once it has returned for
\* a device that answered, the version text holds the MA5600 line whatever
\* page the device printed it on.
C39_DisplayVersionReadsAllPages ==
    (/\ pc = "returned"
     /\ selected = "DisplayVersion"
     /\ dvText.pages > 0
     /\ dvText.at > 0) =>
        "VERSION : MA5600" \in version

\* The commands Eltex MES takes in configuration mode, and the one that
\* enters it.
ConfigModeCmds == {"configure terminal", "interface {port}", "shutdown", "no shutdown",
                   "no description", "description {desc}", "description ?"}

\* C38: when reload_port, set_port or set_description of Eltex MES has
\* returned, every configuration-mode command it sent is followed by 'end'.
C38_ConfigModeAlwaysLeft ==
    (/\ driver = "EltexMES"
     /\ oper \in {"reload_port", "set_port", "set_description"}
     /\ ret.kind = "return") =>
        \A i \in Writes :
            wire[i].text \in ConfigModeCmds =>
                \E j \in Writes : j > i /\ wire[j].ev = "line" /\ wire[j].text = "end"

\* The commands that enter a configuration mode.
EnterConfigCmds == {"configure terminal", "system-view"}

\* C40: set_port called with a valid port and a status that is neither 'up'
\* nor 'down' sends no port-state command, does not enter a configuration
\* mode and does not call save_config.
C40_UnsupportedStatusChangesNothing ==
    (/\ oper = "set_port"
     /\ status \notin {"up", "down"}
     /\ ~InvalidPort(driver, port)) =>
        \A i \in 1..Len(wire) :
            /\ wire[i].ev = "line" =>
                   wire[i].text \notin DisableCmds \cup EnableCmds \cup EnterConfigCmds
            /\ ~(wire[i].ev = "call" /\ wire[i].text = "save_config")

\* Positions of wire at which line text was sent.
LinesOf(text) == {i \in Writes : wire[i].ev = "line" /\ wire[i].text = text}
\* Positions of wire at which the first wait of EltexESR.save_config matched
\* 'Unknown command'.
UnknownCommands ==
    {i \in 1..Len(wire) :
        /\ wire[i].ev = "match"
        /\ wire[i].text = "prompt, successfully applied, Unknown command"
        /\ wire[i].n = 2}
\* Positions of wire at which the answer to 'confirm' held the confirmation.
Confirmed ==
    {i \in 1..Len(wire) :
        /\ wire[i].ev = "test"
        /\ wire[i].text = "'Configuration has been confirmed' in status"
        /\ wire[i].n = 1}

====
